---- MODULE Spec2Model ----
(***************************************************************************)
(* A model of the request-handling core of the Coveo workshop stack:       *)
(*   - the Streaming Answer Decoder of the answering proxy                 *)
(*     (lambdas/answering_proxy/lambda_function.py, process_sse_stream),   *)
(*   - the MCP adapter's synchronous tool call (coveo-agent/mcp_adapter.py)*)
(*   - the agent entrypoint (coveo-agent/app.py, invoke) and its helpers   *)
(*     get_stable_actor_id and clean_response,                             *)
(*   - the SSE parser of the answering proxy (parse_sse_events),           *)
(*   - lambda_handler of the search, answering and AgentCore proxies and   *)
(*     of the Bedrock Agent chat Lambda,                                   *)
(*   - generate_answer of the MCP server (coveo-mcp-server/coveo_api.py).  *)
(* Every component has its own specification over the shared variables;    *)
(* the variables of the other components stay at their idle values.        *)
(***************************************************************************)
EXTENDS Naturals, Integers, Sequences, FiniteSets, TLC

VARIABLES
    \* ---- Streaming Answer Decoder (process_sse_stream) ----
    events,            \* the list parse_sse_events returned for the stream read
    events_processed,  \* loop counter of process_sse_stream
    answer_data,       \* the accumulator / returned record
    sse_pc,            \* "idle" | "loop" | "returned" | "raised"
    \* ---- CoveoMCPAdapter.call_tool and its worker thread ----
    ct_pc,             \* the caller: "idle" | "joining" | "joined" | "returned" | "raised"
    worker,            \* the thread t: "none" | "running" | "finished"
    container,         \* container: <<>> or <<the content _call_tool_async returned>>
    exception_container, \* TRUE when "error" is in exception_container
    ct_result,         \* the value call_tool returned
    timed_out,         \* t.is_alive() was true after the join
    clock,             \* seconds since t.join was called
    \* ---- the agent process (coveo-agent/app.py) ----
    set_session_id_defined, \* whether the adapter object has a set_session_id method
    memory_enabled,    \* memory_client and MEMORY_ID are both set
    mcp_controls,      \* mcp._controls, shared by every request
    mcp_session_id,    \* the session id the adapter holds for correlation
    memory_events,     \* the events create_event stored, in order
    received,          \* number of requests received so far
    inv_pc,            \* per request: where `invoke` stands
    payloads,          \* per request: the payload of the request
    locals,            \* per request: session_id, actor_id, user_text, end_session, text, sources, tools_used
    conversation_context, \* per request: "" or the previous-context block
    calls,             \* per request: the tool invocations of the running agent
    result,            \* per request: what agent(user_text) returned
    response,          \* per request: what invoke returned
    history,           \* per request: the steps of the turn, in order
    \* ---- parse_sse_events (lambdas/answering_proxy) ----
    stream_a,          \* an SSE input, as a sequence of pieces of text
    stream_b,          \* a second SSE input
    job,               \* which call of parse_sse_events is next or running
    parse_pc,          \* "idle" | "lines" | "done"
    pe_lines,          \* stream_data.split('\n') of the running call
    line_count,        \* lines of it read so far
    pe_events,         \* events of the running call
    current_event,     \* current_event of the running call
    outputs,           \* what the finished calls returned, in order
    \* ---- get_stable_actor_id (coveo-agent/app.py), two calls ----
    actor_in,          \* per call: the payload and the context passed
    actor_out,         \* per call: <<>> or <<the actor id returned>>
    \* ---- clean_response (coveo-agent/app.py) ----
    clean_in,          \* the text passed, as a sequence of tokens
    clean_out,         \* <<>> or <<the text returned>>
    \* ---- the HTTP proxy Lambdas (lambdas/*/lambda_function.py) ----
    px_request,        \* the invocation: which handler, event, configuration, upstream
    px_response,       \* what lambda_handler returned, or NoProxyResponse
    \* ---- the Bedrock Agent chat Lambda (lambdas/bedrock_agent_chat) ----
    chat_log,          \* per handled request: what was supplied, passed on and returned
    uuid_count,        \* number of uuid.uuid4() values drawn so far
    \* ---- generate_answer (coveo-mcp-server/coveo_api.py) ----
    ga_pc,             \* "idle" | "lines" | "returned" | "raised"
    ga_read,           \* data lines of the stream read so far
    complete_answer,   \* the text deltas appended so far, joined
    ga_citations       \* the local `citations`

sseVars == <<events, events_processed, answer_data, sse_pc>>

toolVars == <<ct_pc, worker, container, exception_container, ct_result, timed_out, clock>>

agentVars == <<set_session_id_defined, memory_enabled, mcp_controls, mcp_session_id,
               memory_events, received, inv_pc, payloads, locals, conversation_context, calls,
               result, response, history>>

parseVars == <<stream_a, stream_b, job, parse_pc, pe_lines, line_count, pe_events,
               current_event, outputs>>

actorVars == <<actor_in, actor_out>>

cleanVars == <<clean_in, clean_out>>

proxyVars == <<px_request, px_response>>

chatVars == <<chat_log, uuid_count>>

gaVars == <<ga_pc, ga_read, complete_answer, ga_citations>>

edgeVars == <<actorVars, cleanVars, proxyVars, chatVars>>

vars == <<events, events_processed, answer_data, sse_pc,
          ct_pc, worker, container, exception_container, ct_result, timed_out, clock,
          set_session_id_defined, memory_enabled, mcp_controls, mcp_session_id,
          memory_events, received, inv_pc, payloads, locals, conversation_context, calls,
          result, response, history,
          stream_a, stream_b, job, parse_pc, pe_lines, line_count, pe_events,
          current_event, outputs,
          actor_in, actor_out, clean_in, clean_out, px_request, px_response,
          chat_log, uuid_count, ga_pc, ga_read, complete_answer, ga_citations>>

(***************************************************************************)
(* Bounds                                                                  *)
(***************************************************************************)
MaxEvents == 3
MaxClock == 135
MaxRequests == 2
MaxToolCalls == 2
MaxLines == 3
MaxTokens == 4
MaxChatRequests == 2

(***************************************************************************)
(* Program constants                                                       *)
(***************************************************************************)
SseReadTimeout == 300
RequestTimeout == 120
JoinBuffer == 10
TopEntries == 8

(***************************************************************************)
(* JSON texts.  A payload is a JSON value of the outer message object; the *)
(* Answer API sends it as a string that is itself JSON.  json_loads gives  *)
(* what json.loads gives for each text of the catalogue: a parse error, or *)
(* the parsed value.                                                       *)
(***************************************************************************)

\* Raw citations as the Answer API sends them (inside a citations payload).
RawCitation(title, clickUri, uri, hasProject, project) ==
    [title |-> title, clickUri |-> clickUri, uri |-> uri,
     hasProject |-> hasProject, project |-> project, text |-> "t"]

CitA == RawCitation("Doc A", "https://ex.com/a", "", FALSE, "")
CitB == RawCitation("Doc B", "", "https://ex.com/b", TRUE, "finance")

JInvalid ==
    [t |-> "invalid", textDelta |-> "", textDeltaIsStr |-> TRUE,
     hasCitations |-> FALSE, citations |-> <<>>, answerGenerated |-> "absent"]

JObject(textDelta, textDeltaIsStr, hasCitations, citations, answerGenerated) ==
    [t |-> "object", textDelta |-> textDelta, textDeltaIsStr |-> textDeltaIsStr,
     hasCitations |-> hasCitations, citations |-> citations,
     answerGenerated |-> answerGenerated]

JArray(items) ==
    [t |-> "array", textDelta |-> "", textDeltaIsStr |-> TRUE,
     hasCitations |-> FALSE, citations |-> items, answerGenerated |-> "absent"]

\* json.loads on the payload texts of the catalogue
json_loads(s) ==
    CASE s = "{\"textDelta\":\"Hel\"}" -> JObject("Hel", TRUE, FALSE, <<>>, "absent")
      [] s = "{\"textDelta\":\"lo\"}"  -> JObject("lo", TRUE, FALSE, <<>>, "absent")
      [] s = "{\"textDelta\":\"\"}"    -> JObject("", TRUE, FALSE, <<>>, "absent")
      [] s = "{\"textDelta\":5}"       -> JObject("5", FALSE, FALSE, <<>>, "absent")
      [] s = "{\"citations\":[A]}"     -> JObject("", TRUE, TRUE, <<CitA>>, "absent")
      [] s = "{\"citations\":[B,A]}"   -> JObject("", TRUE, TRUE, <<CitB, CitA>>, "absent")
      [] s = "{\"citations\":[]}"      -> JObject("", TRUE, TRUE, <<>>, "absent")
      [] s = "[A]"                     -> JArray(<<CitA>>)
      [] s = "[]"                      -> JArray(<<>>)
      [] s = "{\"answerGenerated\":true}"  -> JObject("", TRUE, FALSE, <<>>, "true")
      [] s = "{\"answerGenerated\":false}" -> JObject("", TRUE, FALSE, <<>>, "false")
      [] s = "{}"                      -> JObject("", TRUE, FALSE, <<>>, "absent")
      [] OTHER                         -> JInvalid

\* The payload field of the outer message: a string (isStr), or another JSON
\* value (an object, a number), which Python tests for truth like any value.
StrPayload(s) == [isStr |-> TRUE, s |-> s, truthy |-> s # ""]
ObjPayload    == [isStr |-> FALSE, s |-> "", truthy |-> TRUE]
NoPayload     == StrPayload("")

\* An event as parse_sse_events emits it.  event = "" stands for a record
\* with no 'event' key; data is the kind of text the data lines hold.
Event(ev, data, payloadType, payload, finishReason) ==
    [event |-> ev, data |-> data, payloadType |-> payloadType,
     payload |-> payload, finishReason |-> finishReason]

Msg(payloadType, payload) == Event("message", "object", payloadType, payload, "")

EventSet ==
    { Msg("genqa.messageType", StrPayload("{\"textDelta\":\"Hel\"}")),
      Msg("genqa.messageType", StrPayload("{\"textDelta\":\"lo\"}")),
      Msg("genqa.messageType", StrPayload("{\"textDelta\":")),
      Msg("genqa.messageType", StrPayload("[]")),
      Msg("genqa.textDeltaMessageType", StrPayload("!")),
      Msg("genqa.citationsType", StrPayload("{\"citations\":[A]}")),
      Msg("genqa.citationsType", StrPayload("{\"citations\":[B,A]}")),
      Msg("genqa.citationsType", StrPayload("{\"citations\":[]}")),
      Msg("genqa.citationsType", StrPayload("{\"citations\":[")),
      Msg("genqa.citationsMessageType", StrPayload("[A]")),
      Msg("genqa.endOfStreamType", StrPayload("{\"answerGenerated\":true}")),
      Msg("genqa.endOfStreamType", StrPayload("{\"answerGenerated\":false}")),
      Msg("genqa.endOfStreamType", NoPayload),
      Msg("genqa.endOfStreamType", StrPayload("{\"answerGenerated\":")),
      Msg("genqa.headerMessageType", StrPayload("{}")),
      Msg("genqa.headerMessageType", ObjPayload),
      Msg("genqa.infoType", StrPayload("{}")),
      Event("message", "object", "genqa.messageType",
            StrPayload("{\"textDelta\":\"lo\"}"), "COMPLETED"),
      Event("message", "notjson", "", NoPayload, ""),
      Event("message", "nonobject", "", NoPayload, ""),
      Event("ping", "object", "genqa.messageType",
            StrPayload("{\"textDelta\":\"Hel\"}"), ""),
      Event("", "object", "genqa.messageType",
            StrPayload("{\"textDelta\":\"Hel\"}"), "") }

RECURSIVE SeqsUpTo(_, _)
SeqsUpTo(S, n) ==
    IF n = 0 THEN {<<>>}
    ELSE LET shorter == SeqsUpTo(S, n - 1)
         IN  shorter \cup {Append(s, e) : s \in {q \in shorter : Len(q) = n - 1}, e \in S}

(***************************************************************************)
(* process_sse_stream                                                      *)
(***************************************************************************)
InitialAnswerData ==
    [answer |-> "", answerText |-> "", response |-> "", citations |-> <<>>,
     answerGenerated |-> FALSE, responseId |-> "None", finishReason |-> "None"]

\* the result of running one branch: the new accumulator, or an exception
\* that none of the handlers for json.JSONDecodeError catches
Ok(ad)  == [exc |-> FALSE, ad |-> ad]
Exc(ad) == [exc |-> TRUE, ad |-> ad]

\* a decoder that appends the delta to `answer` alone
AddTextToAnswerOnly(ad, s) == [ad EXCEPT !.answer = @ \o s]

AddText(ad, s) ==
    [ad EXCEPT !.answer = @ \o s, !.answerText = @ \o s, !.response = @ \o s]

ProcessCitation(c) ==
    LET u == IF c.clickUri # "" THEN c.clickUri ELSE c.uri
    IN  [title |-> c.title, uri |-> u, clickUri |-> u, clickableuri |-> u,
         project |-> IF c.hasProject THEN c.project ELSE "unknown",
         text |-> c.text]

ProcessCitations(cs) == [i \in 1..Len(cs) |-> ProcessCitation(cs[i])]

MessageTypeBranch(ad, payload) ==
    IF ~payload.truthy THEN Ok(ad)
    ELSE IF ~payload.isStr THEN Exc(ad)
    ELSE LET nested_data == json_loads(payload.s)
         IN  CASE nested_data.t = "invalid" -> Ok(ad)
               [] nested_data.t = "object" ->
                    IF nested_data.textDelta = "" THEN Ok(ad)
                    ELSE IF ~nested_data.textDeltaIsStr THEN Exc(ad)
                    ELSE Ok(AddText(ad, nested_data.textDelta))
               [] OTHER -> Exc(ad)

\* a decoder that does not know the legacy delta type
TextDeltaBranchIgnored(ad, payload) == Ok(ad)

TextDeltaBranch(ad, payload) ==
    IF ~payload.truthy THEN Ok(ad)
    ELSE IF ~payload.isStr THEN Exc(ad)
    ELSE Ok(AddText(ad, payload.s))

CitationsBranch(ad, payload) ==
    IF ~payload.truthy THEN Ok(ad)
    ELSE IF ~payload.isStr THEN Exc(ad)
    ELSE LET citations_data == json_loads(payload.s)
         IN  CASE citations_data.t = "invalid" -> Ok(ad)
               [] citations_data.t = "object" ->
                    LET citations_list == IF citations_data.hasCitations
                                          THEN citations_data.citations ELSE <<>>
                    IN  IF citations_list # <<>>
                        THEN Ok([ad EXCEPT !.citations = ProcessCitations(citations_list)])
                        ELSE Ok(ad)
               [] OTHER -> Exc(ad)

LegacyCitationsBranch(ad, payload) ==
    IF ~payload.truthy THEN Ok(ad)
    ELSE IF ~payload.isStr THEN Exc(ad)
    ELSE LET citations_data == json_loads(payload.s)
         IN  CASE citations_data.t = "invalid" -> Ok(ad)
               [] citations_data.t = "array" ->
                    Ok([ad EXCEPT !.citations = citations_data.citations])
               [] OTHER -> Ok(ad)

EndOfStreamBranch(ad, payload) ==
    IF ~payload.truthy THEN Ok(ad)
    ELSE IF ~payload.isStr THEN Exc(ad)
    ELSE LET end_data == json_loads(payload.s)
         IN  CASE end_data.t = "invalid" -> Ok([ad EXCEPT !.answerGenerated = TRUE])
               [] end_data.t = "object" ->
                    Ok([ad EXCEPT !.answerGenerated = (end_data.answerGenerated # "false")])
               [] OTHER -> Exc(ad)

HeaderBranch(ad, payload) ==
    IF ~payload.truthy THEN Ok(ad)
    ELSE IF ~payload.isStr THEN Exc(ad)
    ELSE Ok(ad)

Dispatch(ad, payload_type, payload) ==
    CASE payload_type = "genqa.messageType"          -> MessageTypeBranch(ad, payload)
      [] payload_type = "genqa.textDeltaMessageType" -> TextDeltaBranch(ad, payload)
      [] payload_type = "genqa.citationsType"        -> CitationsBranch(ad, payload)
      [] payload_type = "genqa.citationsMessageType" -> LegacyCitationsBranch(ad, payload)
      [] payload_type = "genqa.endOfStreamType"      -> EndOfStreamBranch(ad, payload)
      [] payload_type = "genqa.headerMessageType"    -> HeaderBranch(ad, payload)
      [] OTHER                                       -> Ok(ad)

\* one iteration of `for event in events`
HandleEvent(ad, event) ==
    IF event.event = "message" /\ event.data # "empty"
    THEN CASE event.data = "notjson"   -> Ok(ad)
           [] event.data = "nonobject" -> Exc(ad)
           [] OTHER ->
                LET r == Dispatch(ad, event.payloadType, event.payload)
                IN  IF r.exc THEN r
                    ELSE IF event.finishReason # ""
                         THEN Ok([r.ad EXCEPT !.finishReason = event.finishReason])
                         ELSE r
    ELSE Ok(ad)

Requests == {"r1", "r2"}

NoResult == [returned |-> FALSE, hasText |-> FALSE, text |-> <<>>, tool_calls |-> <<>>]
NoResponse == [returned |-> FALSE, response |-> <<>>, session_id |-> "", sources |-> <<>>]
NoLocals ==
    [session_id |-> "", actor_id |-> "", user_text |-> <<>>, end_session |-> FALSE,
     text |-> <<>>, sources |-> <<>>, tools_used |-> <<>>]
NoPayloadYet ==
    [text |-> <<>>, prompt |-> <<>>, hasSessionId |-> FALSE, session_id |-> "", end_session |-> FALSE,
     controls |-> [k \in {"answer", "passages", "search"} |-> [isDict |-> TRUE, items |-> {}]],
     actor_id |-> "", user_id |-> ""]

\* the agent process before its first request
AgentStart ==
    /\ mcp_controls = [k \in {"answer", "passages", "search"} |-> [isDict |-> TRUE, items |-> {}]]
    /\ mcp_session_id = ""
    /\ memory_events = <<>>
    /\ received = 0
    /\ inv_pc = [r \in Requests |-> "idle"]
    /\ payloads = [r \in Requests |-> NoPayloadYet]
    /\ locals = [r \in Requests |-> NoLocals]
    /\ conversation_context = [r \in Requests |-> ""]
    /\ calls = [r \in Requests |-> <<>>]
    /\ result = [r \in Requests |-> NoResult]
    /\ response = [r \in Requests |-> NoResponse]
    /\ history = [r \in Requests |-> <<>>]

AgentIdle ==
    /\ set_session_id_defined = FALSE
    /\ memory_enabled = FALSE
    /\ AgentStart

\* current_event = {}: no key set
EmptyEvent ==
    [hasEvent |-> FALSE, event |-> <<>>, hasData |-> FALSE, data |-> <<>>,
     hasId |-> FALSE, id |-> <<>>, hasRetry |-> FALSE, retry |-> <<>>]

ParseIdle ==
    /\ stream_a = <<>>
    /\ stream_b = <<>>
    /\ job = 0
    /\ parse_pc = "done"
    /\ pe_lines = <<>>
    /\ line_count = 0
    /\ pe_events = <<>>
    /\ current_event = EmptyEvent
    /\ outputs = <<>>

SSEIdle ==
    /\ events = <<>>
    /\ events_processed = 0
    /\ answer_data = InitialAnswerData
    /\ sse_pc = "idle"

ToolIdle ==
    /\ ct_pc = "idle"
    /\ worker = "none"
    /\ container = <<>>
    /\ exception_container = FALSE
    /\ ct_result = ""
    /\ timed_out = FALSE
    /\ clock = 0

\* generate_answer before it is called
GAIdle ==
    /\ ga_pc = "idle"
    /\ ga_read = 0
    /\ complete_answer = ""
    /\ ga_citations = <<>>

\* no call of get_stable_actor_id or clean_response, no Lambda invocation
EdgeIdle ==
    /\ actor_in = <<>>
    /\ actor_out = <<>>
    /\ clean_in = <<>>
    /\ clean_out = <<>>
    /\ px_request = <<>>
    /\ px_response = <<>>
    /\ chat_log = <<>>
    /\ uuid_count = 0

SSEInit ==
    /\ GAIdle
    /\ EdgeIdle
    /\ events \in SeqsUpTo(EventSet, MaxEvents)
    /\ events_processed = 0
    /\ answer_data = InitialAnswerData
    /\ sse_pc = "loop"
    /\ ToolIdle
    /\ AgentIdle
    /\ ParseIdle

ProcessEvent ==
    /\ sse_pc = "loop"
    /\ events_processed < Len(events)
    /\ LET r == HandleEvent(answer_data, events[events_processed + 1])
       IN  /\ events_processed' = events_processed + 1
           /\ answer_data' = r.ad
           /\ sse_pc' = IF r.exc THEN "raised" ELSE "loop"
    /\ UNCHANGED <<events, toolVars, agentVars, parseVars, gaVars, edgeVars>>

\* a decoder that takes a stream without genqa.endOfStreamType for a failure
ReturnAnswerNeedsEndOfStream ==
    /\ sse_pc = "loop"
    /\ events_processed = Len(events)
    /\ sse_pc' = IF \E k \in 1..Len(events) :
                       events[k].payloadType = "genqa.endOfStreamType"
                 THEN "returned" ELSE "raised"
    /\ UNCHANGED <<events, events_processed, answer_data, toolVars, agentVars, parseVars, gaVars, edgeVars>>

ReturnAnswer ==
    /\ sse_pc = "loop"
    /\ events_processed = Len(events)
    /\ sse_pc' = "returned"
    /\ UNCHANGED <<events, events_processed, answer_data, toolVars, agentVars, parseVars, gaVars, edgeVars>>

SSENext == ProcessEvent \/ ReturnAnswer

SpecSSE == SSEInit /\ [][SSENext]_vars

(***************************************************************************)
(* CoveoMCPAdapter.call_tool: the call runs _call_tool_async on a thread of *)
(* its own and joins it with a timeout.                                    *)
(***************************************************************************)
\* what _call_tool_async can return as "content"
ToolContents == {"", "{\"citations\":[A]}", "Error: unknown error"}

\* a join that waits for the SSE read timeout instead of the request timeout
JoinTimeoutOfSseRead == SseReadTimeout + JoinBuffer

JoinTimeout == RequestTimeout + JoinBuffer

\* t = threading.Thread(target=_runner); t.start(); t.join(timeout=...)
StartCall ==
    /\ ct_pc = "idle"
    /\ ct_pc' = "joining"
    /\ worker' = "running"
    /\ clock' = 0
    /\ UNCHANGED <<container, exception_container, ct_result, timed_out, sseVars, agentVars, parseVars, gaVars, edgeVars>>

\* _runner: container["result"] = loop.run_until_complete(...)
WorkerStores ==
    /\ worker = "running"
    /\ \E content \in ToolContents : container' = <<content>>
    /\ worker' = "finished"
    /\ UNCHANGED <<ct_pc, exception_container, ct_result, timed_out, clock, sseVars, agentVars, parseVars, gaVars, edgeVars>>

\* _runner: except Exception as e: exception_container["error"] = e
WorkerFails ==
    /\ worker = "running"
    /\ exception_container' = TRUE
    /\ worker' = "finished"
    /\ UNCHANGED <<ct_pc, container, ct_result, timed_out, clock, sseVars, agentVars, parseVars, gaVars, edgeVars>>

\* a second passes; a join still waiting returns at its timeout at the latest
Tick ==
    /\ ct_pc # "idle"
    /\ clock < MaxClock
    /\ ct_pc = "joining" => clock < JoinTimeout
    /\ clock' = clock + 1
    /\ UNCHANGED <<ct_pc, worker, container, exception_container, ct_result,
                   timed_out, sseVars, agentVars, parseVars, gaVars, edgeVars>>

\* t.join(timeout=self._request_timeout + 10) returns
JoinReturns ==
    /\ ct_pc = "joining"
    /\ worker = "finished" \/ clock >= JoinTimeout
    /\ ct_pc' = "joined"
    /\ UNCHANGED <<worker, container, exception_container, ct_result, timed_out,
                   clock, sseVars, agentVars, parseVars, gaVars, edgeVars>>

\* if t.is_alive(): return "" / raise exception_container["error"] /
\* return (container.get("result") or {}).get("content", "")
AfterJoin ==
    /\ ct_pc = "joined"
    /\ IF worker = "running"
       THEN ct_pc' = "returned" /\ ct_result' = "" /\ timed_out' = TRUE
       ELSE IF exception_container
       THEN ct_pc' = "raised" /\ UNCHANGED <<ct_result, timed_out>>
       ELSE /\ ct_pc' = "returned"
            /\ ct_result' = (IF container = <<>> THEN "" ELSE container[1])
            /\ UNCHANGED timed_out
    /\ UNCHANGED <<worker, container, exception_container, clock, sseVars, agentVars, parseVars, gaVars, edgeVars>>

ToolInit ==
    /\ GAIdle
    /\ EdgeIdle
    /\ SSEIdle
    /\ ToolIdle
    /\ AgentIdle
    /\ ParseIdle

ToolNext ==
    \/ StartCall
    \/ WorkerStores
    \/ WorkerFails
    \/ Tick
    \/ JoinReturns
    \/ AfterJoin

SpecCallTool == ToolInit /\ [][ToolNext]_vars


(***************************************************************************)
(* coveo-agent/app.py: the helpers of the entrypoint `invoke`.             *)
(* A text is a sequence of tokens: a tag ("<thinking>") or a run of plain  *)
(* characters.                                                             *)
(***************************************************************************)
OpeningTags == {"<thinking>", "<reasoning>", "<b>"}
ClosingTags == {"</thinking>", "</reasoning>", "</b>"}
Whitespace  == {" ", "\n"}

\* the first index j > 1 of toks with toks[j] in closers, or 0
FirstClose(toks, closers) ==
    LET js == {j \in 2..Len(toks) : toks[j] \in closers}
    IN  IF js = {} THEN 0 ELSE CHOOSE j \in js : \A k \in js : j <= k

\* re.sub(r'<open>.*?<close>', '', text, flags=re.DOTALL): leftmost matches,
\* each ending at the nearest closer, removed with everything between
RECURSIVE RemoveBlocks(_, _, _)
RemoveBlocks(toks, openers, closers) ==
    IF toks = <<>> THEN <<>>
    ELSE IF Head(toks) \in openers /\ FirstClose(toks, closers) # 0
         THEN RemoveBlocks(SubSeq(toks, FirstClose(toks, closers) + 1, Len(toks)),
                           openers, closers)
         ELSE <<Head(toks)>> \o RemoveBlocks(Tail(toks), openers, closers)

RECURSIVE LStrip(_)
LStrip(toks) ==
    IF toks # <<>> /\ Head(toks) \in Whitespace THEN LStrip(Tail(toks)) ELSE toks

RECURSIVE RStrip(_)
RStrip(toks) ==
    IF toks # <<>> /\ toks[Len(toks)] \in Whitespace
    THEN RStrip(SubSeq(toks, 1, Len(toks) - 1)) ELSE toks

clean_response(text) ==
    LET t1 == RemoveBlocks(text, {"<thinking>"}, {"</thinking>"})
        t2 == RemoveBlocks(t1, {"<reasoning>"}, {"</reasoning>"})
        t3 == RemoveBlocks(t2, OpeningTags \cup ClosingTags, ClosingTags)
    IN  RStrip(LStrip(t3))

\* ---- identity -----------------------------------------------------------
\* context.identity: absent/None (present = FALSE) or an object with some of
\* the attributes sub, cognito_username, username
NoIdentity ==
    [present |-> FALSE, hasSub |-> FALSE, sub |-> "",
     hasCognitoUsername |-> FALSE, cognito_username |-> "",
     hasUsername |-> FALSE, username |-> ""]

\* the resolution with the identity claims tried before the payload's actor_id
get_stable_actor_id_IdentityFirst(payload, context) ==
    IF context.present /\ context.hasSub THEN context.sub
    ELSE IF context.present /\ context.hasCognitoUsername THEN context.cognito_username
    ELSE IF context.present /\ context.hasUsername THEN context.username
    ELSE IF payload.actor_id # "" THEN payload.actor_id
    ELSE IF payload.user_id # "" THEN payload.user_id
    ELSE "anonymous"

get_stable_actor_id(payload, context) ==
    IF payload.actor_id # "" THEN payload.actor_id
    ELSE IF context.present /\ context.hasSub THEN context.sub
    ELSE IF context.present /\ context.hasCognitoUsername THEN context.cognito_username
    ELSE IF context.present /\ context.hasUsername THEN context.username
    ELSE IF payload.user_id # "" THEN payload.user_id
    ELSE "anonymous"

\* ---- controls -----------------------------------------------------------
\* a controls value: per tool key, a dict of extra parameters (a set of
\* <<name, value>> pairs) or a value that is no dict
Extra(isDict, items) == [isDict |-> isDict, items |-> items]
EmptyDict == Extra(TRUE, {})
ToolKeys == {"answer", "passages", "search"}

NoControls == [k \in ToolKeys |-> EmptyDict]
ControlsA  == [k \in ToolKeys |->
                 IF k = "answer" THEN Extra(TRUE, {<<"searchHub", "hubA">>})
                 ELSE EmptyDict]
ControlsB  == [k \in ToolKeys |->
                 IF k = "answer" THEN Extra(TRUE, {<<"searchHub", "hubB">>})
                 ELSE IF k = "search" THEN Extra(FALSE, {})
                 ELSE EmptyDict]

\* CoveoMCPAdapter.get_extra on the controls the adapter holds
get_extra(controls, tool_key) ==
    IF controls[tool_key].isDict THEN controls[tool_key] ELSE EmptyDict

\* ---- tool results and source extraction ----------------------------------
\* an entry of a citations / passages / results list; "" stands for a field
\* that is absent or empty (the code tests them with `or` and `if url`)
Item(hasTitle, title, uri, clickUri, clickableuri, project) ==
    [hasTitle |-> hasTitle, title |-> title, uri |-> uri, clickUri |-> clickUri,
     clickableuri |-> clickableuri, project |-> project,
     hasRaw |-> FALSE, raw_clickableuri |-> "", raw_project |-> ""]

\* tool_call.result: no result (kind "none"), a value that is no str
\* ("nonstr"), or a str: not JSON ("notjson"), JSON that is no object
\* ("nondict"), or a JSON object ("dict") with some of the three keys
ToolResult(kind, hasCitations, citations, hasPassages, passages, hasResults, results) ==
    [kind |-> kind,
     hasCitations |-> hasCitations, citations |-> citations,
     hasPassages |-> hasPassages, passages |-> passages,
     hasResults |-> hasResults, results |-> results]

Source(title, url, project) == [title |-> title, url |-> url, project |-> project]

FirstNonEmpty(a, b, c) == IF a # "" THEN a ELSE IF b # "" THEN b ELSE c

TitleOf(item) == IF item.hasTitle THEN item.title ELSE "Untitled"

\* lines 468-477 and 482-491: citations and passages
SourcesOfEntries(entries) ==
    LET kept == SelectSeq(entries,
                    LAMBDA c : FirstNonEmpty(c.uri, c.clickUri, c.clickableuri) # "")
    IN  [i \in 1..Len(kept) |->
            Source(TitleOf(kept[i]),
                   FirstNonEmpty(kept[i].uri, kept[i].clickUri, kept[i].clickableuri),
                   kept[i].project)]

\* lines 496-514: search results
ResultUrl(item) ==
    LET top == FirstNonEmpty(item.clickUri, item.uri, "")
    IN  IF top = "" /\ item.hasRaw THEN item.raw_clickableuri ELSE top

ResultProject(item) ==
    IF item.project = "" /\ item.hasRaw THEN item.raw_project ELSE item.project

SourcesOfResults(entries) ==
    LET kept == SelectSeq(entries, LAMBDA c : ResultUrl(c) # "")
    IN  [i \in 1..Len(kept) |->
            Source(TitleOf(kept[i]), ResultUrl(kept[i]), ResultProject(kept[i]))]

FirstN(seq, n) == SubSeq(seq, 1, IF Len(seq) < n THEN Len(seq) ELSE n)

\* an extractor that looks at passages before citations
SourcesOfToolResultPassagesFirst(tool_result) ==
    IF tool_result.kind # "dict" THEN <<>>
    ELSE IF tool_result.hasPassages /\ tool_result.passages # <<>>
         THEN SourcesOfEntries(FirstN(tool_result.passages, TopEntries))
    ELSE IF tool_result.hasCitations /\ tool_result.citations # <<>>
         THEN SourcesOfEntries(tool_result.citations)
    ELSE IF tool_result.hasResults /\ tool_result.results # <<>>
         THEN SourcesOfResults(FirstN(tool_result.results, TopEntries))
    ELSE <<>>

\* lines 453-524: the sources one tool call contributes
SourcesOfToolResult(tool_result) ==
    IF tool_result.kind # "dict" THEN <<>>
    ELSE IF tool_result.hasCitations /\ tool_result.citations # <<>>
         THEN SourcesOfEntries(tool_result.citations)
    ELSE IF tool_result.hasPassages /\ tool_result.passages # <<>>
         THEN SourcesOfEntries(FirstN(tool_result.passages, TopEntries))
    ELSE IF tool_result.hasResults /\ tool_result.results # <<>>
         THEN SourcesOfResults(FirstN(tool_result.results, TopEntries))
    ELSE <<>>

RECURSIVE CollectSources(_)
CollectSources(tool_calls) ==
    IF tool_calls = <<>> THEN <<>>
    ELSE SourcesOfToolResult(Head(tool_calls).result) \o CollectSources(Tail(tool_calls))

\* an extractor without the deduplication
DeduplicateKeepsAll(sources, seen_urls) == sources

\* lines 529-537: deduplicate by url, the first occurrence kept
RECURSIVE Deduplicate(_, _)
Deduplicate(sources, seen_urls) ==
    IF sources = <<>> THEN <<>>
    ELSE IF Head(sources).url # "" /\ Head(sources).url \notin seen_urls
         THEN <<Head(sources)>> \o
              Deduplicate(Tail(sources), seen_urls \cup {Head(sources).url})
         ELSE Deduplicate(Tail(sources), seen_urls)

ExtractSources(tool_calls) == Deduplicate(CollectSources(tool_calls), {})

\* the sources as returned without the validation pass
ValidSourcesUnfiltered(sources) == sources

\* url.startswith('http')
HttpUrls == {"https://ex.com/a", "https://ex.com/A", "https://ex.com/b", "http://ex.com/c"}
StartsWithHttp(url) == url \in HttpUrls

\* lines 573-578
ValidSources(sources) == SelectSeq(sources, LAMBDA src : StartsWithHttp(src.url))


(***************************************************************************)
(* coveo-agent/app.py: the entrypoint `invoke`, one request per slot of    *)
(* Requests.  The agent, its tools and the memory store are the            *)
(* environment: what they return is chosen from the sets below.            *)
(***************************************************************************)
Payload(text, prompt, hasSessionId, session_id, end_session, controls) ==
    [text |-> text, prompt |-> prompt, hasSessionId |-> hasSessionId,
     session_id |-> session_id, end_session |-> end_session, controls |-> controls,
     actor_id |-> "", user_id |-> ""]

Question == <<"What is ACH?">>

PayloadSet ==
    { Payload(Question, <<>>, TRUE, "s1", FALSE, NoControls),
      Payload(Question, <<>>, TRUE, "s1", TRUE, ControlsB),
      Payload(<<>>, Question, FALSE, "", FALSE, ControlsA) }

\* what the agent records for one tool invocation: the tool, its controls key
\* and the result of the call
ToolInvocation(name, key, tool_result) == [name |-> name, key |-> key, result |-> tool_result]

NoList == <<>>

AchDoc  == Item(TRUE, "ACH Doc", "https://ex.com/a", "", "", "")
AchCopy == Item(TRUE, "ACH Copy", "https://ex.com/a", "", "", "kb")
FtpDoc  == Item(TRUE, "Ftp Doc", "ftp://ex.com/x", "", "", "")
Passage == Item(FALSE, "", "", "https://ex.com/b", "", "kb")
HitA    == Item(TRUE, "A", "", "https://ex.com/A", "", "")
HitB    == Item(TRUE, "B", "", "", "", "")

ToolInvocations ==
    { ToolInvocation("coveo_answer_question", "answer",
                     ToolResult("dict", TRUE, <<AchDoc>>, FALSE, NoList, FALSE, NoList)),
      ToolInvocation("coveo_answer_question", "answer",
                     ToolResult("dict", TRUE, <<FtpDoc>>, TRUE, <<Passage>>, TRUE, <<HitA>>)),
      ToolInvocation("coveo_passage_retrieval", "passages",
                     ToolResult("dict", TRUE, NoList, TRUE, <<Passage, AchCopy>>, TRUE, <<HitA>>)),
      ToolInvocation("coveo_passage_retrieval", "passages",
                     ToolResult("dict", FALSE, NoList, TRUE, NoList, FALSE, NoList)),
      ToolInvocation("coveo_search", "search",
                     ToolResult("dict", FALSE, NoList, FALSE, NoList, TRUE, <<HitA, HitB>>)),
      ToolInvocation("coveo_search", "search",
                     ToolResult("notjson", FALSE, NoList, FALSE, NoList, FALSE, NoList)) }

\* result.message["content"][0].get("text"): a text or None
AgentText(hasText, text) == [hasText |-> hasText, text |-> text]

AgentTexts ==
    { AgentText(TRUE, <<"<thinking>", "plan", "</thinking>", "\n", "ACH is a network.">>),
      AgentText(TRUE, <<"<thinking>", "plan", "</thinking>">>),
      AgentText(FALSE, <<>>) }

\* an event of the memory store, as create_event receives it
MemoryEvent(actor_id, session_id, messages, metadata) ==
    [actor_id |-> actor_id, session_id |-> session_id, messages |-> messages,
     metadata |-> metadata]

Message(text, role) == [text |-> text, role |-> role]

SessionEndedText == <<"Session ended successfully. Your conversation has been saved.">>

Running(r) == inv_pc[r] \notin {"idle", "returned", "raised"}

\* lines 354-357: a request arrives in slot r; mcp.set_controls(controls)
Invoke(r, p) ==
    /\ ~Running(r)
    /\ received < MaxRequests
    /\ received' = received + 1
    /\ payloads' = [payloads EXCEPT ![r] = p]
    /\ mcp_controls' = p.controls
    /\ locals' = [locals EXCEPT ![r] = NoLocals]
    /\ conversation_context' = [conversation_context EXCEPT ![r] = ""]
    /\ calls' = [calls EXCEPT ![r] = <<>>]
    /\ result' = [result EXCEPT ![r] = NoResult]
    /\ response' = [response EXCEPT ![r] = NoResponse]
    /\ history' = [history EXCEPT ![r] = <<>>]
    /\ inv_pc' = [inv_pc EXCEPT ![r] = "controls_set"]
    /\ UNCHANGED <<set_session_id_defined, memory_enabled, mcp_session_id,
                   memory_events, sseVars, toolVars, parseVars, gaVars, edgeVars>>

\* the attribute an adapter with a set_session_id method keeps
set_session_id(session_id) == session_id

\* lines 360-370: the locals of the request, then mcp.set_session_id(session_id);
\* calling a method the adapter does not define raises AttributeError
ResolveSession(r) ==
    /\ inv_pc[r] = "controls_set"
    /\ locals' = [locals EXCEPT ![r] =
           [session_id |-> IF payloads[r].hasSessionId THEN payloads[r].session_id
                           ELSE "default_session",
            actor_id |-> get_stable_actor_id(payloads[r], NoIdentity),
            user_text |-> IF payloads[r].text # <<>> THEN payloads[r].text
                          ELSE payloads[r].prompt,
            end_session |-> payloads[r].end_session,
            text |-> <<>>, sources |-> <<>>, tools_used |-> <<>>]]
    /\ IF set_session_id_defined
       THEN /\ mcp_session_id' = set_session_id(locals'[r].session_id)
            /\ inv_pc' = [inv_pc EXCEPT ![r] = "session_set"]
            /\ UNCHANGED history
       ELSE /\ inv_pc' = [inv_pc EXCEPT ![r] = "raised"]
            /\ history' = [history EXCEPT ![r] = Append(@, "AttributeError")]
            /\ UNCHANGED mcp_session_id
    /\ UNCHANGED <<set_session_id_defined, memory_enabled, mcp_controls, memory_events,
                   received, payloads, conversation_context, calls, result, response,
                   sseVars, toolVars, parseVars, gaVars, edgeVars>>

\* lines 373-398: end_session; the session_end event is written unless the
\* store raises, and the acknowledgment is returned either way
EndSession(r) ==
    /\ inv_pc[r] = "session_set"
    /\ locals[r].end_session
    /\ \/ /\ memory_enabled
          /\ memory_events' = Append(memory_events,
                 MemoryEvent(locals[r].actor_id, locals[r].session_id,
                             <<Message(<<"Session ended by user">>, "SYSTEM")>>,
                             "session_end"))
          /\ history' = [history EXCEPT ![r] = Append(@, "session_end_written")]
       \/ /\ memory_enabled
          /\ history' = [history EXCEPT ![r] = Append(@, "session_end_failed")]
          /\ UNCHANGED memory_events
       \/ /\ ~memory_enabled
          /\ UNCHANGED <<memory_events, history>>
    /\ response' = [response EXCEPT ![r] =
           [returned |-> TRUE, response |-> SessionEndedText,
            session_id |-> locals[r].session_id, sources |-> <<>>]]
    /\ inv_pc' = [inv_pc EXCEPT ![r] = "returned"]
    /\ UNCHANGED <<set_session_id_defined, memory_enabled, mcp_controls, mcp_session_id,
                   received, payloads, locals, conversation_context, calls, result,
                   sseVars, toolVars, parseVars, gaVars, edgeVars>>

\* a retrieval whose exception leaves a context block behind
ContextAfterRetrievalKeepsBlock(outcome) ==
    IF outcome = "none" THEN "" ELSE "Previous Context"

\* lines 402-417: conversation_context after retrieve_memories returned some
\* memories, returned none, or raised
ContextAfterRetrieval(outcome) ==
    IF outcome = "some" THEN "Previous Context" ELSE ""

\* lines 401-417: retrieve_memories; "some" memories make the context block,
\* none or an exception of the store (logged at 417) leave it empty
RetrieveMemories(r) ==
    /\ inv_pc[r] = "session_set"
    /\ ~locals[r].end_session
    /\ \/ /\ memory_enabled
          /\ \E outcome \in {"some", "none", "raise"} :
                /\ conversation_context' = [conversation_context EXCEPT ![r] =
                       ContextAfterRetrieval(outcome)]
                /\ history' = [history EXCEPT ![r] =
                       IF outcome = "raise" THEN @ \o <<"retrieve", "retrieve_failed">>
                       ELSE Append(@, "retrieve")]
       \/ /\ ~memory_enabled
          /\ UNCHANGED <<conversation_context, history>>
    /\ inv_pc' = [inv_pc EXCEPT ![r] = "retrieved"]
    /\ UNCHANGED <<set_session_id_defined, memory_enabled, mcp_controls, mcp_session_id,
                   memory_events, received, payloads, locals, calls, result, response,
                   sseVars, toolVars, parseVars, gaVars, edgeVars>>

\* lines 421-429: the agent is built and called with user_text
StartAgent(r) ==
    /\ inv_pc[r] = "retrieved"
    /\ history' = [history EXCEPT ![r] = Append(@, "agent_invoked")]
    /\ inv_pc' = [inv_pc EXCEPT ![r] = "agent"]
    /\ UNCHANGED <<set_session_id_defined, memory_enabled, mcp_controls, mcp_session_id,
                   memory_events, received, payloads, locals, conversation_context,
                   calls, result, response, sseVars, toolVars, parseVars, gaVars, edgeVars>>

\* lines 264-301: the running agent calls a tool wrapper, which merges
\* mcp.get_extra(key) into the payload of the call
ToolCall(r, inv) ==
    /\ inv_pc[r] = "agent"
    /\ Len(calls[r]) < MaxToolCalls
    /\ calls' = [calls EXCEPT ![r] =
           Append(@, [name |-> inv.name, key |-> inv.key,
                      extra |-> get_extra(mcp_controls, inv.key),
                      result |-> inv.result])]
    /\ UNCHANGED <<set_session_id_defined, memory_enabled, mcp_controls, mcp_session_id,
                   memory_events, received, inv_pc, payloads, locals,
                   conversation_context, result, response, history, sseVars, toolVars, parseVars, gaVars, edgeVars>>

\* line 429: agent(user_text) returns its result: a message and the tool calls
AgentReturns(r, t) ==
    /\ inv_pc[r] = "agent"
    /\ result' = [result EXCEPT ![r] =
           [returned |-> TRUE, hasText |-> t.hasText, text |-> t.text,
            tool_calls |-> calls[r]]]
    /\ history' = [history EXCEPT ![r] = Append(@, "agent_returned")]
    /\ inv_pc' = [inv_pc EXCEPT ![r] = "agent_returned"]
    /\ UNCHANGED <<set_session_id_defined, memory_enabled, mcp_controls, mcp_session_id,
                   memory_events, received, payloads, locals, conversation_context,
                   calls, response, sseVars, toolVars, parseVars, gaVars, edgeVars>>

\* line 429: agent(user_text) raises; nothing in invoke catches it
AgentFails(r) ==
    /\ inv_pc[r] = "agent"
    /\ history' = [history EXCEPT ![r] = Append(@, "AgentError")]
    /\ inv_pc' = [inv_pc EXCEPT ![r] = "raised"]
    /\ UNCHANGED <<set_session_id_defined, memory_enabled, mcp_controls, mcp_session_id,
                   memory_events, received, payloads, locals, conversation_context,
                   calls, result, response, sseVars, toolVars, parseVars, gaVars, edgeVars>>

\* lines 433-437: text = clean_response(content[0].get("text")); re.sub on
\* None raises TypeError
CleanText(r) ==
    /\ inv_pc[r] = "agent_returned"
    /\ IF result[r].hasText
       THEN /\ locals' = [locals EXCEPT ![r].text = clean_response(result[r].text)]
            /\ history' = [history EXCEPT ![r] = Append(@, "cleaned")]
            /\ inv_pc' = [inv_pc EXCEPT ![r] = "cleaned"]
       ELSE /\ history' = [history EXCEPT ![r] = Append(@, "TypeError")]
            /\ inv_pc' = [inv_pc EXCEPT ![r] = "raised"]
            /\ UNCHANGED locals
    /\ UNCHANGED <<set_session_id_defined, memory_enabled, mcp_controls, mcp_session_id,
                   memory_events, received, payloads, conversation_context, calls,
                   result, response, sseVars, toolVars, parseVars, gaVars, edgeVars>>

RECURSIVE ToolNames(_)
ToolNames(tool_calls) ==
    IF tool_calls = <<>> THEN <<>>
    ELSE <<Head(tool_calls).name>> \o ToolNames(Tail(tool_calls))

\* lines 440-545: tools_used and the sources of the tool calls
ExtractFromToolCalls(r) ==
    /\ inv_pc[r] = "cleaned"
    /\ locals' = [locals EXCEPT ![r].sources = ExtractSources(result[r].tool_calls),
                                ![r].tools_used = ToolNames(result[r].tool_calls)]
    /\ history' = [history EXCEPT ![r] =
           IF Len(locals'[r].sources) = 0 /\ Len(locals'[r].tools_used) > 0
           THEN Append(@, "WARNING: no sources were extracted") ELSE @]
    /\ inv_pc' = [inv_pc EXCEPT ![r] = "extracted"]
    /\ UNCHANGED <<set_session_id_defined, memory_enabled, mcp_controls, mcp_session_id,
                   memory_events, received, payloads, conversation_context, calls,
                   result, response, sseVars, toolVars, parseVars, gaVars, edgeVars>>

\* lines 555-558: the messages of the turn, as stored
StoredMessagesUncleaned(r) ==
    <<Message(locals[r].user_text, "USER"), Message(result[r].text, "ASSISTANT")>>

StoredMessages(r) ==
    <<Message(locals[r].user_text, "USER"), Message(locals[r].text, "ASSISTANT")>>

\* a store step that writes one event per message
StoreMemoryPerMessage(r) ==
    /\ inv_pc[r] = "extracted"
    /\ \/ /\ memory_enabled
          /\ memory_events' = memory_events \o
                 << MemoryEvent(locals[r].actor_id, locals[r].session_id,
                                <<StoredMessages(r)[1]>>, "none"),
                    MemoryEvent(locals[r].actor_id, locals[r].session_id,
                                <<StoredMessages(r)[2]>>, "none") >>
          /\ history' = [history EXCEPT ![r] = @ \o <<"write", "write">>]
       \/ /\ memory_enabled
          /\ history' = [history EXCEPT ![r] = Append(@, "write_failed")]
          /\ UNCHANGED memory_events
       \/ /\ ~memory_enabled
          /\ UNCHANGED <<memory_events, history>>
    /\ inv_pc' = [inv_pc EXCEPT ![r] = "stored"]
    /\ UNCHANGED <<set_session_id_defined, memory_enabled, mcp_controls, mcp_session_id,
                   received, payloads, locals, conversation_context, calls, result,
                   response, sseVars, toolVars, parseVars, gaVars, edgeVars>>

\* lines 547-561: create_event with the turn; an exception of the store is
\* logged and the turn goes on
StoreMemory(r) ==
    /\ inv_pc[r] = "extracted"
    /\ \/ /\ memory_enabled
          /\ memory_events' = Append(memory_events,
                 MemoryEvent(locals[r].actor_id, locals[r].session_id,
                             StoredMessages(r), "none"))
          /\ history' = [history EXCEPT ![r] = Append(@, "write")]
       \/ /\ memory_enabled
          /\ history' = [history EXCEPT ![r] = Append(@, "write_failed")]
          /\ UNCHANGED memory_events
       \/ /\ ~memory_enabled
          /\ UNCHANGED <<memory_events, history>>
    /\ inv_pc' = [inv_pc EXCEPT ![r] = "stored"]
    /\ UNCHANGED <<set_session_id_defined, memory_enabled, mcp_controls, mcp_session_id,
                   received, payloads, locals, conversation_context, calls, result,
                   response, sseVars, toolVars, parseVars, gaVars, edgeVars>>

\* line 566: the condition of the CRITICAL WARNING
MissingSources(tools_used, sources) == Len(tools_used) > 0 /\ Len(sources) = 0

\* lines 563-587: the warning when tools were called and no sources were
\* extracted, then the sources with an http url, and the response
Return(r) ==
    /\ inv_pc[r] = "stored"
    /\ history' = [history EXCEPT ![r] =
           IF MissingSources(locals[r].tools_used, locals[r].sources)
           THEN Append(@, "CRITICAL WARNING: no sources") ELSE @]
    /\ response' = [response EXCEPT ![r] =
           [returned |-> TRUE, response |-> locals[r].text,
            session_id |-> locals[r].session_id,
            sources |-> ValidSources(locals[r].sources)]]
    /\ inv_pc' = [inv_pc EXCEPT ![r] = "returned"]
    /\ UNCHANGED <<set_session_id_defined, memory_enabled, mcp_controls, mcp_session_id,
                   memory_events, received, payloads, locals, conversation_context,
                   calls, result, sseVars, toolVars, parseVars, gaVars, edgeVars>>

\* ---- requests one after the other (slot "r1") ---------------------------
Init ==
    /\ GAIdle
    /\ EdgeIdle
    /\ SSEIdle
    /\ ToolIdle
    /\ set_session_id_defined \in BOOLEAN
    /\ memory_enabled \in BOOLEAN
    /\ AgentStart
    /\ ParseIdle

Next ==
    \/ \E p \in PayloadSet : Invoke("r1", p)
    \/ ResolveSession("r1")
    \/ EndSession("r1")
    \/ RetrieveMemories("r1")
    \/ StartAgent("r1")
    \/ \E inv \in ToolInvocations : ToolCall("r1", inv)
    \/ \E t \in AgentTexts : AgentReturns("r1", t)
    \/ AgentFails("r1")
    \/ CleanText("r1")
    \/ ExtractFromToolCalls("r1")
    \/ StoreMemory("r1")
    \/ Return("r1")

Spec == Init /\ [][Next]_vars

\* ---- two requests in flight at once, one per slot, each agent calling at
\* most one tool ----------------------------------------------------------
NextConcurrent ==
    \E r \in Requests :
        \/ \E p \in PayloadSet : inv_pc[r] = "idle" /\ Invoke(r, p)
        \/ ResolveSession(r)
        \/ EndSession(r)
        \/ RetrieveMemories(r)
        \/ StartAgent(r)
        \/ \E inv \in ToolInvocations : calls[r] = <<>> /\ ToolCall(r, inv)
        \/ \E t \in AgentTexts : AgentReturns(r, t)
        \/ AgentFails(r)
        \/ CleanText(r)
        \/ ExtractFromToolCalls(r)
        \/ StoreMemory(r)
        \/ Return(r)

\* a deployment without MEMORY_ID: the memory store has no part in the controls
ConcurrentInit ==
    /\ GAIdle
    /\ EdgeIdle
    /\ SSEIdle
    /\ ToolIdle
    /\ ParseIdle
    /\ set_session_id_defined \in BOOLEAN
    /\ memory_enabled = FALSE
    /\ AgentStart

SpecConcurrent == ConcurrentInit /\ [][NextConcurrent]_vars


(***************************************************************************)
(* lambdas/answering_proxy: parse_sse_events.  A text is a sequence of     *)
(* pieces: "\n", a blank " ", a field name with its colon ("data:"), or a  *)
(* run of other characters.                                                *)
(***************************************************************************)
NewLine == "\n"

\* stream_data.split('\n')
RECURSIVE Split(_)
Split(toks) ==
    IF \A i \in DOMAIN toks : toks[i] # NewLine THEN <<toks>>
    ELSE LET i == CHOOSE i \in DOMAIN toks :
                     /\ toks[i] = NewLine
                     /\ \A j \in 1..(i - 1) : toks[j] # NewLine
         IN  <<SubSeq(toks, 1, i - 1)>> \o Split(SubSeq(toks, i + 1, Len(toks)))

\* str.strip()
Strip(toks) == RStrip(LStrip(toks))

\* line.startswith(name)
StartsWith(line, name) == line # <<>> /\ Head(line) = name

\* line[len(name):].strip()
ValueOf(line) == Strip(Tail(line))

\* `if current_event:` is false for {}
IsEmptyDict(ev) == ~ev.hasEvent /\ ~ev.hasData /\ ~ev.hasId /\ ~ev.hasRetry

ParserState(evs, cur) == [events |-> evs, current_event |-> cur]

\* a parser that emits at every blank line
EndOfEventAlwaysEmits(st) ==
    ParserState(Append(st.events, st.current_event), EmptyEvent)

\* lines 383-389: a blank line ends the event in progress, if there is one
EndOfEvent(st) ==
    IF ~IsEmptyDict(st.current_event)
    THEN ParserState(Append(st.events, st.current_event), EmptyEvent)
    ELSE st

\* lines 391-403: a field line
SetField(ev, line) ==
    IF StartsWith(line, "event:")
    THEN [ev EXCEPT !.hasEvent = TRUE, !.event = ValueOf(line)]
    ELSE IF StartsWith(line, "data:")
    THEN IF ev.hasData
         THEN [ev EXCEPT !.data = @ \o <<NewLine>> \o ValueOf(line)]
         ELSE [ev EXCEPT !.hasData = TRUE, !.data = ValueOf(line)]
    ELSE IF StartsWith(line, "id:")
    THEN [ev EXCEPT !.hasId = TRUE, !.id = ValueOf(line)]
    ELSE IF StartsWith(line, "retry:")
    THEN [ev EXCEPT !.hasRetry = TRUE, !.retry = ValueOf(line)]
    ELSE ev

\* lines 379-403: one iteration of `for line in stream_data.split('\n')`
HandleLine(st, raw) ==
    LET line == Strip(raw)
    IN  IF line = <<>> THEN EndOfEvent(st)
        ELSE ParserState(st.events, SetField(st.current_event, line))

\* a parser without the flush at the end of the input
FinalFlushDropped(st) == st.events

\* lines 405-408: the event in progress at the end of the input
FinalFlush(st) ==
    IF ~IsEmptyDict(st.current_event)
    THEN Append(st.events, st.current_event)
    ELSE st.events

\* ---- inputs ---------------------------------------------------------------
BlankLine   == <<>>
SpaceLine   == <<" ">>
DataX       == <<"data:", " ", "x">>
DataY       == <<"data:", "y", " ">>
EventMsg    == <<"event:", " ", "message">>
IdLine      == <<" ", "id:", "1">>
RetryLine   == <<"retry:", "5">>
CommentLine == <<":", "c">>

LineSet == {BlankLine, SpaceLine, DataX, DataY, EventMsg, IdLine, CommentLine}

\* the text whose lines are ls
RECURSIVE JoinLines(_)
JoinLines(ls) ==
    IF ls = <<>> THEN <<>>
    ELSE IF Len(ls) = 1 THEN Head(ls)
    ELSE Head(ls) \o <<NewLine>> \o JoinLines(Tail(ls))

StreamsA == {JoinLines(ls) : ls \in SeqsUpTo(LineSet, MaxLines)}

StreamsB ==
    { <<>>,
      JoinLines(<<DataY>>),
      JoinLines(<<EventMsg, DataX, BlankLine, BlankLine>>),
      JoinLines(<<BlankLine, RetryLine, DataX>>) }

\* the calls made, in order: on a, on b, on a + b, and on a again
Jobs == <<"a", "b", "ab", "a">>

JobInput(k) ==
    CASE Jobs[k] = "a"  -> stream_a
      [] Jobs[k] = "b"  -> stream_b
      [] Jobs[k] = "ab" -> stream_a \o stream_b

\* a call that keeps the events of the call before it
StartParseKeepsEvents ==
    /\ parse_pc = "idle"
    /\ job <= Len(Jobs)
    /\ pe_lines' = Split(JobInput(job))
    /\ line_count' = 0
    /\ current_event' = EmptyEvent
    /\ parse_pc' = "lines"
    /\ UNCHANGED <<pe_events, stream_a, stream_b, job, outputs, sseVars, toolVars, agentVars, gaVars, edgeVars>>

\* lines 373-379: the locals of a call and the split of its input
StartParse ==
    /\ parse_pc = "idle"
    /\ job <= Len(Jobs)
    /\ pe_lines' = Split(JobInput(job))
    /\ line_count' = 0
    /\ pe_events' = <<>>
    /\ current_event' = EmptyEvent
    /\ parse_pc' = "lines"
    /\ UNCHANGED <<stream_a, stream_b, job, outputs, sseVars, toolVars, agentVars, gaVars, edgeVars>>

\* lines 379-403: the next line
ParseLine ==
    /\ parse_pc = "lines"
    /\ line_count < Len(pe_lines)
    /\ LET st == HandleLine(ParserState(pe_events, current_event), pe_lines[line_count + 1])
       IN  /\ pe_events' = st.events
           /\ current_event' = st.current_event
    /\ line_count' = line_count + 1
    /\ UNCHANGED <<stream_a, stream_b, job, parse_pc, pe_lines, outputs,
                   sseVars, toolVars, agentVars, gaVars, edgeVars>>

\* lines 405-412: the final event, and the return
FinishParse ==
    /\ parse_pc = "lines"
    /\ line_count = Len(pe_lines)
    /\ pe_events' = FinalFlush(ParserState(pe_events, current_event))
    /\ outputs' = Append(outputs, pe_events')
    /\ job' = job + 1
    /\ parse_pc' = "idle"
    /\ UNCHANGED <<stream_a, stream_b, pe_lines, line_count, current_event,
                   sseVars, toolVars, agentVars, gaVars, edgeVars>>

ParseInit ==
    /\ GAIdle
    /\ EdgeIdle
    /\ SSEIdle
    /\ ToolIdle
    /\ AgentIdle
    /\ stream_a \in StreamsA
    /\ stream_b \in StreamsB
    /\ job = 1
    /\ parse_pc = "idle"
    /\ pe_lines = <<>>
    /\ line_count = 0
    /\ pe_events = <<>>
    /\ current_event = EmptyEvent
    /\ outputs = <<>>

ParseNext ==
    \/ StartParse
    \/ ParseLine
    \/ FinishParse

SpecParse == ParseInit /\ [][ParseNext]_vars

(***************************************************************************)
(* get_stable_actor_id (coveo-agent/app.py), called for two requests.  A   *)
(* request reaches the agent directly or through the AgentCore Lambda,     *)
(* which builds the payload from the body of the HTTP request.             *)
(***************************************************************************)
ActorCalls == {1, 2}

\* context.identity with some of the attributes; an attribute that exists
\* may hold "" (an empty or null claim)
Identity(sub, cognito, username) ==
    [present |-> TRUE, hasSub |-> sub[1], sub |-> sub[2],
     hasCognitoUsername |-> cognito[1], cognito_username |-> cognito[2],
     hasUsername |-> username[1], username |-> username[2]]

Contexts ==
    {NoIdentity} \cup
    { Identity(s, c, u) :
        s \in {<<FALSE, "">>, <<TRUE, "">>, <<TRUE, "sub-1">>},
        c \in {<<FALSE, "">>, <<TRUE, "">>, <<TRUE, "cu-1">>},
        u \in {<<FALSE, "">>, <<TRUE, "un-1">>} }

\* the body of a chat request to the Lambda: userId / user_id, absent or given
RequestData(hasUserId, userId, hasUser_id, user_id) ==
    [hasUserId |-> hasUserId, userId |-> userId, hasUser_id |-> hasUser_id,
     user_id |-> user_id]

RequestDataSet ==
    { RequestData(FALSE, "", FALSE, ""), RequestData(TRUE, "alice", FALSE, ""),
      RequestData(TRUE, "bob", TRUE, "legacy"), RequestData(FALSE, "", TRUE, "legacy"),
      RequestData(TRUE, "", FALSE, "") }

\* handle_chat_request: request_data.get('userId', request_data.get('user_id', 'anonymous'))
ActorIdOfRequest(request_data) ==
    IF request_data.hasUserId THEN request_data.userId
    ELSE IF request_data.hasUser_id THEN request_data.user_id
    ELSE "anonymous"

\* AgentCoreClient.ask_agent: the payload sent to the agent; actor_id is set
\* only when it is truthy
ask_agent(text, controls, session_id, actor_id) ==
    [text |-> text, prompt |-> <<>>, hasSessionId |-> session_id # "",
     session_id |-> session_id, end_session |-> FALSE, controls |-> controls,
     actor_id |-> actor_id, user_id |-> ""]

\* payloads sent to the agent without the Lambda
DirectPayloads ==
    { [Payload(Question, <<>>, TRUE, "s1", FALSE, NoControls)
          EXCEPT !.actor_id = a, !.user_id = u] :
        a \in {"", "alice", "bob"}, u \in {"", "legacy"} }

ActorPayloads ==
    DirectPayloads \cup
    { ask_agent(Question, NoControls, "s1", ActorIdOfRequest(rd)) : rd \in RequestDataSet }

ActorInit ==
    /\ SSEIdle
    /\ ToolIdle
    /\ AgentIdle
    /\ ParseIdle
    /\ GAIdle
    /\ actor_in \in [ActorCalls -> [payload : ActorPayloads, context : Contexts]]
    /\ actor_out = [c \in ActorCalls |-> <<>>]
    /\ clean_in = <<>>
    /\ clean_out = <<>>
    /\ px_request = <<>>
    /\ px_response = <<>>
    /\ chat_log = <<>>
    /\ uuid_count = 0

\* app.py line 361: actor_id = get_stable_actor_id(payload, context)
ResolveActor(c) ==
    /\ actor_out[c] = <<>>
    /\ actor_out' = [actor_out EXCEPT ![c] =
           <<get_stable_actor_id(actor_in[c].payload, actor_in[c].context)>>]
    /\ UNCHANGED <<actor_in, cleanVars, proxyVars, chatVars, gaVars,
                   sseVars, toolVars, agentVars, parseVars>>

ActorNext == \E c \in ActorCalls : ResolveActor(c)

SpecActor == ActorInit /\ [][ActorNext]_vars

(***************************************************************************)
(* clean_response (coveo-agent/app.py) on texts of thinking and reasoning  *)
(* tags, plain text and blanks.                                            *)
(***************************************************************************)
CleanTokens == {"<thinking>", "</thinking>", "<reasoning>", "</reasoning>", "a", " "}

CleanInit ==
    /\ SSEIdle
    /\ ToolIdle
    /\ AgentIdle
    /\ ParseIdle
    /\ GAIdle
    /\ actor_in = <<>>
    /\ actor_out = <<>>
    /\ clean_in \in SeqsUpTo(CleanTokens, MaxTokens)
    /\ clean_out = <<>>
    /\ px_request = <<>>
    /\ px_response = <<>>
    /\ chat_log = <<>>
    /\ uuid_count = 0

\* app.py line 437: text = clean_response(text)
Clean ==
    /\ clean_out = <<>>
    /\ clean_out' = <<clean_response(clean_in)>>
    /\ UNCHANGED <<clean_in, actorVars, proxyVars, chatVars, gaVars,
                   sseVars, toolVars, agentVars, parseVars>>

CleanNext == Clean

SpecClean == CleanInit /\ [][CleanNext]_vars

(***************************************************************************)
(* The HTTP proxy Lambdas: lambda_handler of search_proxy, answering_proxy *)
(* and agentcore_runtime_py.  An invocation is the event, the state of the *)
(* configuration and what the upstream service does when it is called; a   *)
(* response is the status code, the names of the headers and the keys of   *)
(* the JSON body.                                                          *)
(***************************************************************************)
ProxyNames == {"search_proxy", "answering_proxy", "agentcore_runtime"}

\* event['body']: a JSON object, text that is no JSON, or a JSON array
Bodies == {"json_object", "invalid_json", "json_array"}

\* httpMethod / path of the event
Routes == {"post", "options", "health"}

\* environment and SSM: complete, a required value missing, or (answering
\* proxy) COVEO_ANSWER_CONFIG_ID unset
Configs == {"ok", "missing", "no_answer_config"}

\* the upstream call: 200 with a JSON object, 200 with an SSE stream, 200 with
\* an SSE stream on which process_sse_stream raises, 200 with text that is
\* neither, another 2xx status, an error status, no connection
Upstreams ==
    {"ok_json", "ok_sse", "ok_sse_unprocessable", "ok_not_json", "status_204",
     "http_error", "url_error"}

ProxyRequests ==
    [proxy : ProxyNames, body : Bodies, route : Routes, hasQuestion : BOOLEAN,
     config : Configs, upstream : Upstreams]

Envelope(statusCode, headers, body) ==
    [statusCode |-> statusCode, headers |-> headers, body |-> body]

NoProxyResponse == Envelope(0, {}, {})

\* the headers of the success responses of search_proxy and answering_proxy,
\* and of every response of agentcore_runtime_py
CorsHeaders ==
    {"Content-Type", "Access-Control-Allow-Origin", "Access-Control-Allow-Headers",
     "Access-Control-Allow-Methods"}

\* the headers of the error responses of search_proxy and answering_proxy
JsonHeaders == {"Content-Type"}

\* search_proxy call_coveo_search_api: the data, or the exception it raises
call_coveo_search_api(upstream) ==
    CASE upstream = "ok_json" -> "data"
      [] upstream \in {"ok_sse", "ok_sse_unprocessable", "ok_not_json"} -> "JSONDecodeError"
      [] OTHER -> "Exception"

\* answering_proxy call_coveo_answer_api: an SSE stream goes to
\* process_sse_stream, any other body to json.loads
call_coveo_answer_api(upstream, config) ==
    CASE config = "no_answer_config" -> "Exception"
      [] upstream \in {"ok_json", "ok_sse"} -> "data"
      [] upstream = "ok_not_json" -> "JSONDecodeError"
      [] OTHER -> "Exception"

\* the try/except of lambda_handler in search_proxy and answering_proxy
CoveoProxyResponse(req, outcome) ==
    IF req.body = "invalid_json" THEN Envelope(400, JsonHeaders, {"error", "details"})
    ELSE IF req.body = "json_array" \/ req.config = "missing"
         THEN Envelope(500, JsonHeaders, {"error", "details"})
    ELSE CASE outcome = "data" -> Envelope(200, CorsHeaders, {"data"})
           [] outcome = "JSONDecodeError" -> Envelope(400, JsonHeaders, {"error", "details"})
           [] OTHER -> Envelope(500, JsonHeaders, {"error", "details"})

create_success_response(data) == Envelope(200, CorsHeaders, data)

create_error_response(status_code) == Envelope(status_code, CorsHeaders, {"error", "statusCode"})

\* AgentCoreClient.invoke_runtime: a dict, or the exception it re-raises
invoke_runtime(upstream) ==
    IF upstream \in {"ok_json", "ok_sse", "ok_sse_unprocessable", "ok_not_json"}
    THEN "data" ELSE "Exception"

\* agentcore_runtime_py handle_chat_request
handle_chat_request(req) ==
    IF ~req.hasQuestion THEN create_error_response(400)
    ELSE IF invoke_runtime(req.upstream) = "data"
         THEN create_success_response({"answer", "response", "sessionId", "backend", "sources"})
         ELSE create_error_response(500)

\* agentcore_runtime_py lambda_handler
AgentCoreResponse(req) ==
    IF req.route = "options" THEN create_success_response({"ok"})
    ELSE IF req.route = "health" THEN create_success_response({"status"})
    ELSE IF req.config = "missing" THEN create_error_response(503)
    ELSE IF req.body = "invalid_json" THEN create_error_response(400)
    ELSE IF req.body = "json_array" THEN create_error_response(500)
    ELSE handle_chat_request(req)

ProxyInit ==
    /\ SSEIdle
    /\ ToolIdle
    /\ AgentIdle
    /\ ParseIdle
    /\ GAIdle
    /\ actor_in = <<>>
    /\ actor_out = <<>>
    /\ clean_in = <<>>
    /\ clean_out = <<>>
    /\ px_request \in ProxyRequests
    /\ px_response = NoProxyResponse
    /\ chat_log = <<>>
    /\ uuid_count = 0

\* search_proxy lambda_handler
SearchProxy ==
    /\ px_request.proxy = "search_proxy"
    /\ px_response = NoProxyResponse
    /\ px_response' = CoveoProxyResponse(px_request, call_coveo_search_api(px_request.upstream))
    /\ UNCHANGED <<px_request, actorVars, cleanVars, chatVars, gaVars,
                   sseVars, toolVars, agentVars, parseVars>>

\* answering_proxy lambda_handler
AnsweringProxy ==
    /\ px_request.proxy = "answering_proxy"
    /\ px_response = NoProxyResponse
    /\ px_response' = CoveoProxyResponse(px_request,
                          call_coveo_answer_api(px_request.upstream, px_request.config))
    /\ UNCHANGED <<px_request, actorVars, cleanVars, chatVars, gaVars,
                   sseVars, toolVars, agentVars, parseVars>>

\* agentcore_runtime_py lambda_handler
AgentCoreRuntime ==
    /\ px_request.proxy = "agentcore_runtime"
    /\ px_response = NoProxyResponse
    /\ px_response' = AgentCoreResponse(px_request)
    /\ UNCHANGED <<px_request, actorVars, cleanVars, chatVars, gaVars,
                   sseVars, toolVars, agentVars, parseVars>>

ProxyNext == SearchProxy \/ AnsweringProxy \/ AgentCoreRuntime

SpecProxy == ProxyInit /\ [][ProxyNext]_vars

(***************************************************************************)
(* The Bedrock Agent chat Lambda (lambdas/bedrock_agent_chat): requests    *)
(* handled one after the other.  uuid.uuid4() gives a value never given    *)
(* before; a client may send back an id an earlier response carried.       *)
(***************************************************************************)
Uuids == <<"uuid-1", "uuid-2", "uuid-3", "uuid-4", "uuid-5">>

\* what a handled request leaves: the conversation type and the session id
\* the client supplied, the sessionId passed to invoke_agent ("" when the
\* agent was not invoked) and the status code and sessionId of the response
ChatEntry(conversation_type, supplied, passed, statusCode, sessionId) ==
    [conversation_type |-> conversation_type, supplied |-> supplied, passed |-> passed,
     statusCode |-> statusCode, sessionId |-> sessionId]

RECURSIVE ReturnedIds(_)
ReturnedIds(log) ==
    IF log = <<>> THEN {}
    ELSE (IF Head(log).sessionId # "" THEN {Head(log).sessionId} ELSE {})
         \cup ReturnedIds(Tail(log))

\* a session choice that keeps the client's id in single-turn mode too
SessionForSuppliedFirst(conversation_type, supplied, fresh) ==
    IF supplied # "" THEN supplied ELSE fresh

\* lines 230-242: the session id of the request
SessionFor(conversation_type, supplied, fresh) ==
    IF conversation_type = "single-turn" THEN fresh
    ELSE IF supplied = "" THEN fresh
    ELSE supplied

\* body.get('sessionId') or body.get('session_id')
SuppliedSession(sessionId, session_id) == IF sessionId # "" THEN sessionId ELSE session_id

ChatInit ==
    /\ SSEIdle
    /\ ToolIdle
    /\ AgentIdle
    /\ ParseIdle
    /\ GAIdle
    /\ actor_in = <<>>
    /\ actor_out = <<>>
    /\ clean_in = <<>>
    /\ clean_out = <<>>
    /\ px_request = <<>>
    /\ px_response = <<>>
    /\ chat_log = <<>>
    /\ uuid_count = 0

\* bedrock_agent_chat lambda_handler, for one event: body is valid JSON or not;
\* ssm is "ok" or "fail"; agent is what invoke_agent does
ChatHandler(validBody, hasQuestion, sessionId, session_id, conversation_type, ssm, agent) ==
    LET supplied == SuppliedSession(sessionId, session_id)
        fresh    == Uuids[uuid_count + 1]
        session  == SessionFor(conversation_type, supplied, fresh)
        drawn    == conversation_type = "single-turn" \/ supplied = ""
    IN  /\ Len(chat_log) < MaxChatRequests
        /\ IF ~validBody \/ ~hasQuestion
           THEN /\ chat_log' = Append(chat_log,
                       ChatEntry(conversation_type, supplied, "", 400, ""))
                /\ UNCHANGED uuid_count
           ELSE /\ uuid_count' = IF drawn THEN uuid_count + 1 ELSE uuid_count
                /\ chat_log' = Append(chat_log,
                       IF ssm = "fail"
                       THEN ChatEntry(conversation_type, supplied, "", 503, "")
                       ELSE CASE agent = "ok" ->
                                   ChatEntry(conversation_type, supplied, session, 200, session)
                              [] agent = "ClientError" ->
                                   ChatEntry(conversation_type, supplied, session, 502, "")
                              [] OTHER ->
                                   ChatEntry(conversation_type, supplied, session, 500, ""))
        /\ UNCHANGED <<actorVars, cleanVars, proxyVars, gaVars,
                       sseVars, toolVars, agentVars, parseVars>>

ChatNext ==
    \E validBody, hasQuestion \in BOOLEAN,
       sessionId \in {"", "c1"} \cup ReturnedIds(chat_log),
       session_id \in {"", "c2"},
       conversation_type \in {"single-turn", "multi-turn"},
       ssm \in {"ok", "fail"},
       agent \in {"ok", "ClientError", "Exception"} :
        ChatHandler(validBody, hasQuestion, sessionId, session_id, conversation_type, ssm, agent)

SpecChat == ChatInit /\ [][ChatNext]_vars

(***************************************************************************)
(* generate_answer (coveo-mcp-server/coveo_api.py) beside the decoder of   *)
(* the answering proxy, on one stream.  The stream carries, for each event *)
(* of `events`, its event: line (if any), one data: line and a blank line; *)
(* generate_answer reads the data: lines only.                             *)
(***************************************************************************)
\* what one data line does to (complete_answer, citations): go on, leave
\* the loop (break), or raise out of the function
GALine(answer, citations, step) == [answer |-> answer, citations |-> citations, step |-> step]

\* lines 237-258: the body of the loop for the data line of event e.  A
\* payload that is no string makes json.loads raise TypeError, a nested value
\* that is no object makes .get raise AttributeError; a delta that is no
\* string makes ''.join raise after the loop, so the call raises either way.
generate_answer_line(answer, citations, e) ==
    IF e.data = "notjson" THEN GALine(answer, citations, "continue")
    ELSE IF e.data = "nonobject" THEN GALine(answer, citations, "raise")
    ELSE IF e.payloadType = "genqa.endOfStreamType" THEN GALine(answer, citations, "break")
    ELSE IF e.payloadType \notin {"genqa.messageType", "genqa.citationsType"}
         THEN GALine(answer, citations, "continue")
    ELSE IF ~e.payload.isStr THEN GALine(answer, citations, "raise")
    ELSE LET payload == json_loads(e.payload.s)
         IN  CASE payload.t = "invalid" -> GALine(answer, citations, "continue")
               [] payload.t = "array" -> GALine(answer, citations, "raise")
               [] OTHER ->
                    IF e.payloadType = "genqa.messageType"
                    THEN IF payload.textDelta = "" THEN GALine(answer, citations, "continue")
                         ELSE IF ~payload.textDeltaIsStr THEN GALine(answer, citations, "raise")
                         ELSE GALine(answer \o payload.textDelta, citations, "continue")
                    ELSE GALine(answer,
                                IF payload.hasCitations THEN payload.citations ELSE <<>>,
                                "continue")

AnswerInit ==
    /\ events \in SeqsUpTo(EventSet, MaxEvents)
    /\ events_processed = 0
    /\ answer_data = InitialAnswerData
    /\ sse_pc = "loop"
    /\ ga_pc = "lines"
    /\ ga_read = 0
    /\ complete_answer = ""
    /\ ga_citations = <<>>
    /\ ToolIdle
    /\ AgentIdle
    /\ ParseIdle
    /\ EdgeIdle

\* lines 233-258: the next data line of the stream
GenerateLine ==
    /\ ga_pc = "lines"
    /\ ga_read < Len(events)
    /\ LET r == generate_answer_line(complete_answer, ga_citations, events[ga_read + 1])
       IN  /\ ga_read' = ga_read + 1
           /\ complete_answer' = r.answer
           /\ ga_citations' = r.citations
           /\ ga_pc' = CASE r.step = "continue" -> "lines"
                         [] r.step = "break" -> "done"
                         [] OTHER -> "raised"
    /\ UNCHANGED <<sseVars, toolVars, agentVars, parseVars, edgeVars>>

\* lines 260-274: the stream ended or the loop was left; the answer text and
\* the citations are what the return value is made of
GenerateReturn ==
    /\ \/ ga_pc = "lines" /\ ga_read = Len(events)
       \/ ga_pc = "done"
    /\ ga_pc' = "returned"
    /\ UNCHANGED <<ga_read, complete_answer, ga_citations,
                   sseVars, toolVars, agentVars, parseVars, edgeVars>>

AnswerNext == ProcessEvent \/ ReturnAnswer \/ GenerateLine \/ GenerateReturn

SpecAnswer == AnswerInit /\ [][AnswerNext]_vars


(***************************************************************************)
(* Claims about the Streaming Answer Decoder                               *)
(***************************************************************************)
LastEvent == events[events_processed]

\* an event the decoder takes as a message: type message, data a JSON object
IsMessage(e) == e.event = "message" /\ e.data = "object"

IsEndOfStream(e) == IsMessage(e) /\ e.payloadType = "genqa.endOfStreamType"

EndOfStreamSeen == \E k \in 1..events_processed : IsEndOfStream(events[k])

\* a genqa.citationsType event whose payload carries a citations list
CarriesCitations(e) ==
    /\ IsMessage(e)
    /\ e.payloadType = "genqa.citationsType"
    /\ e.payload.isStr
    /\ json_loads(e.payload.s).t = "object"
    /\ json_loads(e.payload.s).hasCitations

NormalizedCitation(c) ==
    [title |-> c.title,
     uri |-> IF c.clickUri # "" THEN c.clickUri ELSE c.uri,
     clickUri |-> IF c.clickUri # "" THEN c.clickUri ELSE c.uri,
     clickableuri |-> IF c.clickUri # "" THEN c.clickUri ELSE c.uri,
     project |-> IF c.hasProject THEN c.project ELSE "unknown",
     text |-> c.text]

CarriedCitations(e) ==
    LET cs == json_loads(e.payload.s).citations
    IN  [i \in 1..Len(cs) |-> NormalizedCitation(cs[i])]

\* C6: each genqa.citationsType event replaces the accumulated citations with
\* the list it carries, whatever that list is (an empty list empties them).
C6_CitationsReplaced ==
    (sse_pc = "loop" /\ events_processed > 0 /\ CarriesCitations(LastEvent))
        => answer_data.citations = CarriedCitations(LastEvent)

\* C7: genqa.endOfStreamType is terminal: once it has been processed, no later
\* event changes the answer text, the citations, answer_generated or
\* finish_reason.
C7_EndOfStreamTerminal ==
    [][EndOfStreamSeen =>
         /\ answer_data'.answer = answer_data.answer
         /\ answer_data'.citations = answer_data.citations
         /\ answer_data'.answerGenerated = answer_data.answerGenerated
         /\ answer_data'.finishReason = answer_data.finishReason]_vars

\* C8: no event, whatever its data or payload, makes the decoder raise: the
\* event is skipped and the events after it are processed.
C8_ParseFailureLocal ==
    /\ sse_pc # "raised"
    /\ (sse_pc = "returned" => events_processed = Len(events))

\* the text an event contributes to the answer
RECURSIVE Concat(_)
Concat(ss) == IF ss = <<>> THEN "" ELSE Head(ss) \o Concat(Tail(ss))

TextDeltaOf(e) ==
    IF ~IsMessage(e) \/ ~e.payload.isStr THEN ""
    ELSE CASE e.payloadType = "genqa.messageType" ->
                  LET j == json_loads(e.payload.s)
                  IN  IF j.t = "object" /\ j.textDeltaIsStr THEN j.textDelta ELSE ""
           [] e.payloadType = "genqa.textDeltaMessageType" -> e.payload.s
           [] OTHER -> ""

ExpectedAnswer == Concat([i \in 1..Len(events) |-> TextDeltaOf(events[i])])

\* an event of a shape the Answer API does not send: data that is JSON but no
\* object, a payload that is no string, or a payload text that parses to a
\* value of another type than the payload type calls for
UnexpectedShape(e) ==
    /\ e.event = "message"
    /\ \/ e.data = "nonobject"
       \/ /\ e.data = "object"
          /\ e.payloadType \in {"genqa.messageType", "genqa.textDeltaMessageType",
                                "genqa.citationsType", "genqa.citationsMessageType",
                                "genqa.endOfStreamType", "genqa.headerMessageType"}
          /\ \/ ~e.payload.isStr
             \/ /\ e.payloadType \in {"genqa.messageType", "genqa.citationsType",
                                      "genqa.endOfStreamType"}
                /\ json_loads(e.payload.s).t = "array"
             \/ /\ e.payloadType = "genqa.messageType"
                /\ ~json_loads(e.payload.s).textDeltaIsStr

NoEndOfStream == \A k \in 1..Len(events) : ~IsEndOfStream(events[k])

\* C9: when the stream ends and no genqa.endOfStreamType was delivered, the
\* decoder returns; the record it returns holds the text and the citations
\* accumulated from the events received.
C9_ImplicitTerminal ==
    [][(sse_pc = "loop" /\ events_processed = Len(events) /\ NoEndOfStream)
          => (sse_pc' = "returned" /\ answer_data' = answer_data
              /\ answer_data'.answer = ExpectedAnswer)]_vars

C9_Witness ==
    /\ sse_pc = "returned"
    /\ NoEndOfStream
    /\ answer_data.answer = "Hello"
    /\ Len(answer_data.citations) = 2

C4_JoinTimeout ==
    /\ [](ct_pc = "joining" => clock <= 120 + 10)
    /\ []((ct_pc \in {"returned", "raised"} /\ timed_out)
            => (ct_pc = "returned" /\ ct_result = ""))
    /\ [][(ct_pc = "returned" \/ ct_pc = "raised")
            => (ct_pc' = ct_pc /\ ct_result' = ct_result)]_vars

\* the worker outlives the call that gave up on it, and stores its result
C4_Witness ==
    /\ ct_pc = "returned"
    /\ timed_out
    /\ worker = "finished"
    /\ container = <<"{\"citations\":[A]}">>
    /\ ct_result = ""

\* what the claim expects of answer_generated after an end-of-stream event
ExpectedAnswerGenerated(e) ==
    IF /\ e.payload.isStr
       /\ json_loads(e.payload.s).t = "object"
       /\ json_loads(e.payload.s).answerGenerated = "false"
    THEN FALSE ELSE TRUE

\* C11: after a genqa.endOfStreamType event answer_generated is the value of
\* the payload's answerGenerated field, and true when the payload cannot be
\* parsed, an absent or empty payload included.
C11_AnswerGeneratedAtEndOfStream ==
    (sse_pc = "loop" /\ events_processed > 0 /\ IsEndOfStream(LastEvent))
        => answer_data.answerGenerated = ExpectedAnswerGenerated(LastEvent)

\* C12: after every processed event, and in the returned record, the fields
\* answer, answerText and response hold the identical string.
C12_AliasesIdentical ==
    /\ answer_data.answerText = answer_data.answer
    /\ answer_data.response = answer_data.answer

C12_Witness ==
    /\ sse_pc = "returned"
    /\ events_processed = 3
    /\ answer_data.answer = "Hel!lo"
    /\ answer_data.answerText = "Hel!lo"
    /\ answer_data.response = "Hel!lo"

\* C13: an event without an `event:` line has type "message": the decoder
\* handles it exactly as the same data under an explicit `event: message` line.
C13_DefaultEventType ==
    [][(/\ sse_pc = "loop"
        /\ events_processed < Len(events)
        /\ events[events_processed + 1].event = "")
          => /\ sse_pc' = "loop"
             /\ answer_data' =
                    HandleEvent(answer_data,
                                [events[events_processed + 1] EXCEPT !.event = "message"]).ad]_vars

(***************************************************************************)
(* Claims about the agent entrypoint                                       *)
(***************************************************************************)
Last(seq) == seq[Len(seq)]

Occurs(h, step) == \E i \in DOMAIN h : h[i] = step

\* some occurrence of `first` lies strictly before index j of h
Before(h, first, j) == \E i \in DOMAIN h : i < j /\ h[i] = first

\* the scenario of the claim: no end_session, an agent that called one tool
\* whose result is {"citations": [{title, uri}]} and answered with a text
OneCitationTurn(r) ==
    /\ ~payloads[r].end_session
    /\ Len(result[r].tool_calls) = 1
    /\ result[r].tool_calls[1].result =
           ToolResult("dict", TRUE, <<AchDoc>>, FALSE, NoList, FALSE, NoList)
    /\ result[r].hasText
    /\ clean_response(result[r].text) # <<>>

\* C1: a request without end_session makes invoke complete (it raises only
\* when the agent itself fails or answers without a text), and with an agent
\* that called one tool returning {"citations": [{title, uri}]} it returns a
\* non-empty response, the session_id of the request and the citation
\* normalized to {title, url: uri, project: ""}.
C1_InvokeReturnsNormalizedSources ==
    \A r \in Requests :
        /\ (inv_pc[r] = "raised" /\ ~payloads[r].end_session)
               => Last(history[r]) \in {"AgentError", "TypeError"}
        /\ (inv_pc[r] = "returned" /\ OneCitationTurn(r))
               => /\ response[r].returned
                  /\ response[r].response # <<>>
                  /\ payloads[r].hasSessionId
                         => response[r].session_id = payloads[r].session_id
                  /\ response[r].sources = <<Source("ACH Doc", "https://ex.com/a", "")>>

\* C2: in a turn without end_session the memory retrieval comes strictly
\* before the agent is invoked, the memory write comes strictly after the agent
\* returned and the text was cleaned, and the ASSISTANT message written is
\* exactly the response text returned to the caller.
C2_MemoryAroundAgent ==
    LET h == history["r1"]
    IN  /\ \A j \in DOMAIN h :
            /\ h[j] = "retrieve" => ~Before(h, "agent_invoked", j)
            /\ (h[j] = "agent_invoked" /\ memory_enabled) => Before(h, "retrieve", j)
            /\ h[j] = "write" => /\ Before(h, "agent_returned", j)
                                 /\ Before(h, "cleaned", j)
        /\ (inv_pc["r1"] = "returned" /\ Occurs(h, "write"))
               => /\ memory_events # <<>>
                  /\ Last(memory_events).session_id = response["r1"].session_id
                  /\ Last(memory_events).messages =
                         <<Message(locals["r1"].user_text, "USER"),
                           Message(response["r1"].response, "ASSISTANT")>>

C2_Witness ==
    /\ inv_pc["r1"] = "returned"
    /\ history["r1"] = <<"retrieve", "agent_invoked", "agent_returned", "cleaned", "write">>
    /\ response["r1"].response = <<"ACH is a network.">>
    /\ result["r1"].text # response["r1"].response
    /\ Last(memory_events).messages[2] = Message(<<"ACH is a network.">>, "ASSISTANT")

Range(seq) == {seq[i] : i \in DOMAIN seq}

SourceKeys == {"citations", "passages", "results"}

\* the key is present in the tool data and its list is not empty
NonEmptyKey(tr, key) ==
    CASE key = "citations" -> tr.hasCitations /\ tr.citations # <<>>
      [] key = "passages"  -> tr.hasPassages /\ tr.passages # <<>>
      [] key = "results"   -> tr.hasResults /\ tr.results # <<>>

HigherKeys(key) ==
    CASE key = "citations" -> {}
      [] key = "passages"  -> {"citations"}
      [] key = "results"   -> {"citations", "passages"}

\* the key the claim lets a tool result contribute from
Contributes(tr, key) ==
    /\ tr.kind = "dict"
    /\ NonEmptyKey(tr, key)
    /\ \A h \in HigherKeys(key) : ~NonEmptyKey(tr, h)

\* the sources the entries under one key give
SourcesUnder(tr, key) ==
    CASE key = "citations" -> SourcesOfEntries(tr.citations)
      [] key = "passages"  -> SourcesOfEntries(FirstN(tr.passages, TopEntries))
      [] key = "results"   -> SourcesOfResults(FirstN(tr.results, TopEntries))

\* the turn in slot "r1" has extracted its sources
Extracted == inv_pc["r1"] \in {"extracted", "stored", "returned"} /\ result["r1"].returned

\* C17: a tool result that is a JSON object gives sources from exactly one
\* key: citations if non-empty, else passages if non-empty, else results if
\* non-empty; a lower key never contributes beside a higher one, and a result
\* with none of them contributes nothing.
C17_OneKeyByPriority ==
    Extracted =>
        LET tcs == result["r1"].tool_calls
        IN  /\ \A s \in Range(locals["r1"].sources) :
                   \E k \in DOMAIN tcs, key \in SourceKeys :
                       /\ Contributes(tcs[k].result, key)
                       /\ s \in Range(SourcesUnder(tcs[k].result, key))
            /\ \A k \in DOMAIN tcs, key \in SourceKeys :
                   Contributes(tcs[k].result, key)
                       => \A s \in Range(SourcesUnder(tcs[k].result, key)) :
                              \E kept \in Range(locals["r1"].sources) : kept.url = s.url

C17_Witness ==
    /\ Extracted
    /\ Len(result["r1"].tool_calls) = 1
    /\ result["r1"].tool_calls[1].result =
           ToolResult("dict", TRUE, <<FtpDoc>>, TRUE, <<Passage>>, TRUE, <<HitA>>)
    /\ locals["r1"].sources = <<Source("Ftp Doc", "ftp://ex.com/x", "")>>

\* the sources of all tool results of the turn, in tool-call order
Merged == CollectSources(result["r1"].tool_calls)

FirstIndex(all, url) ==
    CHOOSE m \in DOMAIN all : all[m].url = url /\ \A n \in 1..(m - 1) : all[n].url # url

Returned == inv_pc["r1"] = "returned" /\ ~payloads["r1"].end_session

\* C18: the returned sources hold no url twice; the entry kept for a url is the
\* earliest one across the tool results, with its title and project, and the
\* kept entries stand in the order of their first occurrence.
C18_DeduplicatedByUrl ==
    Returned =>
        LET out == response["r1"].sources
        IN  /\ \A i, j \in DOMAIN out : i # j => out[i].url # out[j].url
            /\ \A i \in DOMAIN out :
                   \E m \in DOMAIN Merged :
                       /\ Merged[m] = out[i]
                       /\ \A n \in 1..(m - 1) : Merged[n].url # out[i].url
            /\ \A i, j \in DOMAIN out :
                   i < j => FirstIndex(Merged, out[i].url) < FirstIndex(Merged, out[j].url)
            /\ \A m \in DOMAIN Merged :
                   StartsWithHttp(Merged[m].url)
                       => \E i \in DOMAIN out : out[i].url = Merged[m].url

C18_Witness ==
    /\ Returned
    /\ Merged = <<Source("ACH Doc", "https://ex.com/a", ""),
                  Source("Untitled", "https://ex.com/b", "kb"),
                  Source("ACH Copy", "https://ex.com/a", "kb")>>
    /\ response["r1"].sources = <<Source("ACH Doc", "https://ex.com/a", ""),
                                  Source("Untitled", "https://ex.com/b", "kb")>>

\* C19: every returned source has a non-empty url that starts with "http";
\* the entries without one are dropped and the others kept, so the results
\* [{title A, clickUri https://...}, {title B, uri ""}] give the one source A.
C19_OnlyHttpSources ==
    Returned =>
        LET out == response["r1"].sources
        IN  /\ \A i \in DOMAIN out : out[i].url # "" /\ StartsWithHttp(out[i].url)
            /\ \A s \in Range(locals["r1"].sources) :
                   StartsWithHttp(s.url) <=> s \in Range(out)
            /\ (/\ Len(result["r1"].tool_calls) = 1
                /\ result["r1"].tool_calls[1].result =
                       ToolResult("dict", FALSE, NoList, FALSE, NoList, TRUE, <<HitA, HitB>>))
                   => out = <<Source("A", "https://ex.com/A", "")>>

C19_Witness ==
    /\ Returned
    /\ Len(result["r1"].tool_calls) = 2
    /\ result["r1"].tool_calls[1].result =
           ToolResult("dict", TRUE, <<FtpDoc>>, TRUE, <<Passage>>, TRUE, <<HitA>>)
    /\ result["r1"].tool_calls[2].result =
           ToolResult("dict", FALSE, NoList, FALSE, NoList, TRUE, <<HitA, HitB>>)
    /\ locals["r1"].sources = <<Source("Ftp Doc", "ftp://ex.com/x", ""),
                                Source("A", "https://ex.com/A", "")>>
    /\ response["r1"].sources = <<Source("A", "https://ex.com/A", "")>>

FieldNames == {"event:", "data:", "id:", "retry:"}

Blank(raw) == Strip(raw) = <<>>

\* a line that sets a field of the event in progress
Recognised(raw) == ~Blank(raw) /\ Head(Strip(raw)) \in FieldNames

\* line i is the first field line since the start of the input or the last
\* blank line: the events of an input are as many as these lines
OpensEvent(ls, i) ==
    /\ Recognised(ls[i])
    /\ \A j \in 1..(i - 1) :
           Recognised(ls[j]) => \E k \in (j + 1)..(i - 1) : Blank(ls[k])

ExpectedEventCount(ls) == Cardinality({i \in DOMAIN ls : OpensEvent(ls, i)})

\* the input ends with an event in progress: a field line after the last
\* blank line
EndsInProgress(ls) ==
    \E i \in DOMAIN ls :
        /\ Recognised(ls[i])
        /\ \A k \in (i + 1)..Len(ls) : ~Blank(ls[k])

\* the last field line of an input, as a field of an event
LastFieldIn(ls, ev) ==
    LET i == CHOOSE i \in DOMAIN ls :
                 Recognised(ls[i]) /\ \A k \in (i + 1)..Len(ls) : ~Recognised(ls[k])
        name == Head(Strip(ls[i]))
        value == ValueOf(Strip(ls[i]))
    IN  CASE name = "event:" -> ev.hasEvent /\ ev.event = value
          [] name = "id:"    -> ev.hasId /\ ev.id = value
          [] name = "retry:" -> ev.hasRetry /\ ev.retry = value
          [] name = "data:"  ->
                /\ ev.hasData
                /\ Len(ev.data) >= Len(value)
                /\ SubSeq(ev.data, Len(ev.data) - Len(value) + 1, Len(ev.data)) = value

\* C14: an event still in progress when the input ends without a trailing
\* blank line is emitted, exactly once: the events are as many as the input
\* opens, and the last one carries the last field line.
C14_FinalEventFlushedOnce ==
    \A k \in DOMAIN outputs :
        LET ls == Split(JobInput(k))
        IN  EndsInProgress(ls)
                => /\ Len(outputs[k]) = ExpectedEventCount(ls)
                   /\ outputs[k] # <<>>
                   /\ LastFieldIn(ls, Last(outputs[k]))

C14_Witness ==
    /\ Len(outputs) >= 1
    /\ stream_a = JoinLines(<<EventMsg, BlankLine, DataX>>)
    /\ Len(outputs[1]) = 2
    /\ outputs[1][2] = [EmptyEvent EXCEPT !.hasData = TRUE, !.data = <<"x">>]

\* C15: no emitted event is empty; an input of blank, comment and unrecognised
\* lines only yields no event; consecutive blank lines add nothing (the events
\* are as many as the input opens).
C15_NoEmptyEvent ==
    \A k \in DOMAIN outputs :
        LET ls == Split(JobInput(k))
        IN  /\ \A i \in DOMAIN outputs[k] : ~IsEmptyDict(outputs[k][i])
            /\ (\A i \in DOMAIN ls : ~Recognised(ls[i])) => outputs[k] = <<>>
            /\ Len(outputs[k]) = ExpectedEventCount(ls)

C15_Witness ==
    /\ Len(outputs) >= 1
    /\ stream_a = JoinLines(<<DataX, BlankLine, SpaceLine>>)
    /\ outputs[1] = <<[EmptyEvent EXCEPT !.hasData = TRUE, !.data = <<"x">>]>>

\* the text ends with a blank line: a line that is empty or blank, with its
\* end of line
EndsWithBlankLine(toks) ==
    LET ls == Split(toks)
    IN  /\ Len(ls) >= 2
        /\ ls[Len(ls)] = <<>>
        /\ Blank(ls[Len(ls) - 1])

\* C16: when a ends with a blank line, parsing a + b gives the events of a
\* followed by the events of b; parsing the same input twice gives the same
\* events.
C16_ConcatenationAndIdempotence ==
    Len(outputs) = Len(Jobs)
        => /\ outputs[4] = outputs[1]
           /\ EndsWithBlankLine(stream_a) => outputs[3] = outputs[1] \o outputs[2]

C16_Witness ==
    /\ Len(outputs) = Len(Jobs)
    /\ EndsWithBlankLine(stream_a)
    /\ outputs[1] # <<>>
    /\ outputs[2] # <<>>
    /\ outputs[3] = outputs[1] \o outputs[2]
    /\ outputs[4] = outputs[1]


(***************************************************************************)
(* Claims about get_stable_actor_id (SpecActor)                            *)
(***************************************************************************)
Resolved(c) == actor_out[c] # <<>>

\* C21: a payload actor_id that is present and non-empty is the actor id
\* returned, whatever the identity context and user_id are.
C21_ExplicitActorIdFirst ==
    \A c \in ActorCalls :
        (Resolved(c) /\ actor_in[c].payload.actor_id # "")
            => actor_out[c][1] = actor_in[c].payload.actor_id

C21_Witness ==
    \E c \in ActorCalls :
        /\ Resolved(c)
        /\ actor_in[c].payload.actor_id = "alice"
        /\ actor_in[c].payload.user_id = "legacy"
        /\ actor_in[c].context.present
        /\ actor_in[c].context.hasSub
        /\ actor_in[c].context.sub = "sub-1"
        /\ actor_out[c][1] = "alice"

\* the candidates in the order of the claim; a claim the identity does not
\* carry counts as empty
Candidates(payload, context) ==
    << payload.actor_id,
       IF context.present /\ context.hasSub THEN context.sub ELSE "",
       IF context.present /\ context.hasCognitoUsername THEN context.cognito_username ELSE "",
       IF context.present /\ context.hasUsername THEN context.username ELSE "",
       payload.user_id,
       "anonymous" >>

FirstNonEmptyOf(cands) ==
    cands[CHOOSE i \in 1..Len(cands) :
              cands[i] # "" /\ \A j \in 1..(i - 1) : cands[j] = ""]

\* C22: the actor id returned is the first non-empty of actor_id, sub,
\* cognito_username, username, user_id, "anonymous" (an empty or null claim
\* falls through), so it is never empty.
C22_FirstNonEmptyCandidate ==
    \A c \in ActorCalls :
        Resolved(c) =>
            /\ actor_out[c][1] # ""
            /\ actor_out[c][1] =
                   FirstNonEmptyOf(Candidates(actor_in[c].payload, actor_in[c].context))

ClaimsPresent(context) ==
    context.present /\ (context.hasSub \/ context.hasCognitoUsername \/ context.hasUsername)

\* C23: two requests that carry the same identity claims resolve to the same
\* actor id, whatever else their payloads contain.
C23_SameClaimsSameActor ==
    \A c, d \in ActorCalls :
        (/\ Resolved(c) /\ Resolved(d)
         /\ ClaimsPresent(actor_in[c].context)
         /\ actor_in[c].context = actor_in[d].context)
            => actor_out[c][1] = actor_out[d][1]

(***************************************************************************)
(* Claims about clean_response (SpecClean)                                 *)
(***************************************************************************)
ScratchOpen  == {"<thinking>", "<reasoning>"}
ScratchClose == {"</thinking>", "</reasoning>"}
CloserOf(tag) == IF tag = "<thinking>" THEN "</thinking>" ELSE "</reasoning>"

\* every closing tag closes the innermost open block and no block stays open
RECURSIVE WellNested(_, _)
WellNested(toks, open) ==
    IF toks = <<>> THEN open = <<>>
    ELSE IF Head(toks) \in ScratchOpen
         THEN WellNested(Tail(toks), <<Head(toks)>> \o open)
    ELSE IF Head(toks) \in ScratchClose
         THEN /\ open # <<>>
              /\ CloserOf(Head(open)) = Head(toks)
              /\ WellNested(Tail(toks), Tail(open))
    ELSE WellNested(Tail(toks), open)

\* the tokens of a well-nested text that lie in no block
RECURSIVE OutsideBlocks(_, _)
OutsideBlocks(toks, depth) ==
    IF toks = <<>> THEN <<>>
    ELSE IF Head(toks) \in ScratchOpen THEN OutsideBlocks(Tail(toks), depth + 1)
    ELSE IF Head(toks) \in ScratchClose THEN OutsideBlocks(Tail(toks), depth - 1)
    ELSE IF depth = 0 THEN <<Head(toks)>> \o OutsideBlocks(Tail(toks), depth)
    ELSE OutsideBlocks(Tail(toks), depth)

RECURSIVE IsSubseq(_, _)
IsSubseq(a, b) ==
    IF a = <<>> THEN TRUE
    ELSE IF b = <<>> THEN FALSE
    ELSE IF Head(a) = Head(b) THEN IsSubseq(Tail(a), Tail(b))
    ELSE IsSubseq(a, Tail(b))

\* C26: the cleaned text keeps nothing of a thinking or reasoning block,
\* neither its tags nor its content, also when blocks repeat or nest.
C26_NoScratchBlockLeft ==
    (clean_out # <<>> /\ WellNested(clean_in, <<>>))
        => IsSubseq(clean_out[1], OutsideBlocks(clean_in, 0))


(***************************************************************************)
(* Claims about the memory store in a turn (Spec)                          *)
(***************************************************************************)
\* C24: a failure of the memory store never fails the turn: when retrieval
\* raises there is no previous-context block and the agent is still invoked;
\* when the write raises the turn returns the response, session id and sources
\* it returns otherwise.
C24_MemoryFailuresNotFatal ==
    LET h == history["r1"]
    IN  /\ Occurs(h, "retrieve_failed")
            => /\ conversation_context["r1"] = ""
               /\ inv_pc["r1"] = "retrieved" \/ Occurs(h, "agent_invoked")
        /\ Occurs(h, "write_failed")
            => /\ inv_pc["r1"] \in {"stored", "returned"}
               /\ inv_pc["r1"] = "returned"
                     => response["r1"] =
                            [returned |-> TRUE,
                             response |-> clean_response(result["r1"].text),
                             session_id |-> locals["r1"].session_id,
                             sources |-> ValidSources(ExtractSources(result["r1"].tool_calls))]

C24_Witness ==
    /\ inv_pc["r1"] = "returned"
    /\ Occurs(history["r1"], "retrieve_failed")
    /\ Occurs(history["r1"], "write_failed")
    /\ response["r1"].response = <<"ACH is a network.">>
    /\ response["r1"].sources # <<>>

CountOf(h, tokens) == Cardinality({j \in DOMAIN h : h[j] \in tokens})

\* C25: a request writes at most one memory event.  A normal turn makes one
\* create_event call, with the USER message and the final ASSISTANT message; an
\* end_session request makes one, with a single SYSTEM message and metadata
\* session_end, and on that path memory is not retrieved, the agent is not
\* invoked and the sources returned are empty.
C25_OneMemoryEventPerRequest ==
    LET h == history["r1"]
    IN  /\ Len(memory_events) <= received
        /\ CountOf(h, {"write", "session_end_written"}) <= 1
        /\ (inv_pc["r1"] = "returned" /\ memory_enabled)
              => CountOf(h, {"write", "write_failed",
                             "session_end_written", "session_end_failed"}) = 1
        /\ Occurs(h, "write")
              => Last(memory_events) =
                     MemoryEvent(locals["r1"].actor_id, locals["r1"].session_id,
                                 << Message(locals["r1"].user_text, "USER"),
                                    Message(locals["r1"].text, "ASSISTANT") >>, "none")
        /\ Occurs(h, "session_end_written")
              => /\ Last(memory_events).messages =
                        <<Message(<<"Session ended by user">>, "SYSTEM")>>
                 /\ Last(memory_events).metadata = "session_end"
                 /\ Last(memory_events).session_id = locals["r1"].session_id
        /\ (inv_pc["r1"] = "returned" /\ locals["r1"].end_session)
              => /\ ~Occurs(h, "retrieve")
                 /\ ~Occurs(h, "agent_invoked")
                 /\ ~Occurs(h, "write")
                 /\ response["r1"].sources = <<>>

C25_Witness ==
    /\ inv_pc["r1"] = "returned"
    /\ locals["r1"].end_session
    /\ history["r1"] = <<"session_end_written">>
    /\ Len(memory_events) = 2
    /\ memory_events[1].metadata = "none"
    /\ memory_events[1].messages[2].role = "ASSISTANT"
    /\ memory_events[2].metadata = "session_end"


(***************************************************************************)
(* Claims about the HTTP proxy Lambdas (SpecProxy)                         *)
(***************************************************************************)
Responded == px_response # NoProxyResponse

\* C27: every response of a proxy, success or error, is a statusCode /
\* headers / body envelope whose headers include Access-Control-Allow-Origin.
C27_EnvelopeWithCors ==
    Responded
        => /\ px_response.statusCode \in {200, 400, 500, 502, 503}
           /\ px_response.body # {}
           /\ "Access-Control-Allow-Origin" \in px_response.headers

\* the handler got as far as the upstream call, and the call failed or came
\* back with an error status
UpstreamCalled(req) ==
    /\ req.body = "json_object"
    /\ req.config = "ok"
    /\ req.proxy = "agentcore_runtime" => (req.route = "post" /\ req.hasQuestion)

UpstreamFailed(req) == req.upstream \in {"http_error", "url_error"}

\* C28: when the upstream call fails or returns a non-2xx status, the proxy
\* returns a response with status 500, 502 or 503 and a JSON body that has
\* the keys error and details.
C28_UpstreamFailureEnvelope ==
    (Responded /\ UpstreamCalled(px_request) /\ UpstreamFailed(px_request))
        => /\ px_response.statusCode \in {500, 502, 503}
           /\ {"error", "details"} \subseteq px_response.body

(***************************************************************************)
(* Claims about the Bedrock Agent chat Lambda (SpecChat)                   *)
(***************************************************************************)
\* C29: the sessionId a response carries is the one passed to invoke_agent;
\* in multi-turn mode that is the client's sessionId, unchanged; in
\* single-turn mode it is a fresh id for every request, also when the client
\* supplied one.
C29_SessionIdPreserved ==
    \A i \in DOMAIN chat_log :
        LET e == chat_log[i]
        IN  /\ e.statusCode = 200 => (e.passed # "" /\ e.sessionId = e.passed)
            /\ (e.passed # "" /\ e.conversation_type # "single-turn" /\ e.supplied # "")
                  => e.passed = e.supplied
            /\ (e.passed # "" /\ e.conversation_type = "single-turn")
                  => /\ e.passed # e.supplied
                     /\ \A j \in 1..(i - 1) :
                            /\ e.passed # chat_log[j].passed
                            /\ e.passed # chat_log[j].supplied

C29_Witness ==
    /\ Len(chat_log) = 2
    /\ chat_log[1].conversation_type = "single-turn"
    /\ chat_log[1].supplied = "c1"
    /\ chat_log[1].sessionId = "uuid-1"
    /\ chat_log[2].conversation_type = "multi-turn"
    /\ chat_log[2].supplied = "uuid-1"
    /\ chat_log[2].statusCode = 200
    /\ chat_log[2].sessionId = "uuid-1"


(***************************************************************************)
(* Claims about generate_answer and the decoder (SpecAnswer)               *)
(***************************************************************************)
\* C30: for every stream, the answer text and the citation list accumulated
\* by process_sse_stream equal those accumulated by generate_answer (before
\* its Sources suffix is added); the citations compare in the normalized form.
C30_SameAnswerAndCitations ==
    (sse_pc = "returned" /\ ga_pc = "returned")
        => /\ answer_data.answer = complete_answer
           /\ answer_data.citations = ProcessCitations(ga_citations)
====
